---- MODULE Spec2Model ----
(***************************************************************************)
(* Access-control core: SmartContract (registry), DeviceOwner (authority), *)
(* Device (verifier), User (holder) and CryptoUtils (canonical codec).     *)
(*                                                                         *)
(* Every method of the TypeScript sources runs to completion on the single *)
(* JavaScript thread, so each method call is one atomic action; callers    *)
(* that run "concurrently" interleave at the granularity of whole calls.   *)
(***************************************************************************)
EXTENDS Integers, Sequences, FiniteSets, TLC

(***************************************************************************)
(* Bounds of the model.                                                    *)
(***************************************************************************)
MaxLocks == 2      \* registerLock calls explored
MaxIssued == 2     \* successful issueVc calls explored
MaxKeys == 3       \* key pairs a signature is made and verified with
MaxSalts == 2      \* PSS salts drawn for one message and key
MaxData == 3       \* messages signed: 0..MaxData

(***************************************************************************)
(* Text and bytes.  A string is a sequence of characters; a character of   *)
(* the base64 alphabet is its 6-bit value 0..63 ('A' = 0, 'B' = 1, 'Q' =   *)
(* 16, ...), '=' is PadChar and OtherChar stands for any character outside *)
(* the alphabet ('!', ' ', ...).  A Buffer is a sequence of bytes 0..255.  *)
(***************************************************************************)
PadChar == 64
OtherChar == 65
Alphabet == 0..63

\* /^[A-Za-z0-9+/]*={0,2}$/.test(str)
base64Regex(str) ==
  \E p \in 0..2 :
    /\ p <= Len(str)
    /\ \A i \in 1..Len(str) :
         IF i > Len(str) - p THEN str[i] = PadChar ELSE str[i] \in Alphabet

\* The characters Node's lenient decoder consumes: it skips characters
\* outside the alphabet and stops at the first '='.
RECURSIVE dataChars(_)
dataChars(str) ==
  IF Len(str) = 0 \/ str[1] = PadChar THEN <<>>
  ELSE IF str[1] \in Alphabet THEN <<str[1]>> \o dataChars(Tail(str))
  ELSE dataChars(Tail(str))

\* Bytes of a run of alphabet characters: 4 characters give 3 bytes, a
\* trailing 3 give 2 bytes, 2 give 1 byte, and a single trailing character
\* (6 bits) gives none; left-over low bits are dropped.
RECURSIVE decodeChars(_)
decodeChars(c) ==
  IF Len(c) < 2 THEN <<>>
  ELSE IF Len(c) = 2 THEN << c[1] * 4 + c[2] \div 16 >>
  ELSE IF Len(c) = 3 THEN << c[1] * 4 + c[2] \div 16,
                             (c[2] % 16) * 16 + c[3] \div 4 >>
  ELSE << c[1] * 4 + c[2] \div 16,
          (c[2] % 16) * 16 + c[3] \div 4,
          (c[3] % 4) * 64 + c[4] >> \o decodeChars(SubSeq(c, 5, Len(c)))

\* Buffer.from(str, "base64")
fromBase64(str) == decodeChars(dataChars(str))

\* buffer.toString("base64")
RECURSIVE toBase64(_)
toBase64(b) ==
  IF Len(b) = 0 THEN <<>>
  ELSE IF Len(b) = 1 THEN << b[1] \div 4, (b[1] % 4) * 16, PadChar, PadChar >>
  ELSE IF Len(b) = 2 THEN << b[1] \div 4,
                             (b[1] % 4) * 16 + b[2] \div 16,
                             (b[2] % 16) * 4,
                             PadChar >>
  ELSE << b[1] \div 4,
          (b[1] % 4) * 16 + b[2] \div 16,
          (b[2] % 16) * 4 + b[3] \div 64,
          b[3] % 64 >> \o toBase64(SubSeq(b, 4, Len(b)))

\* CryptoUtils.isValidBase64 with only its regular-expression test.
isValidBase64_regexOnly(str) == base64Regex(str)

\* CryptoUtils.isValidBase64: regex test, then decode and re-encode.
isValidBase64(str) ==
  IF ~base64Regex(str) THEN FALSE
  ELSE toBase64(fromBase64(str)) = str

(***************************************************************************)
(* Keys and the signature primitive of node:crypto.  The k-th key pair     *)
(* generated (k >= 1) has public key k and private key -k, two different   *)
(* texts.  BadKey is a string that is no PEM key; node:crypto throws on    *)
(* it.  An RSA-PSS signature is modelled as two bytes that bind the key    *)
(* pair, the random salt and the signed data; a change of either byte      *)
(* alone makes it invalid.                                                 *)
(***************************************************************************)
BadKey == 0

\* CryptoUtils.generateKeyPair(), the k-th call
CryptoUtils_generateKeyPair(k) == [privateKey |-> 0 - k, publicKey |-> k]

\* crypto.createHash("sha256").update(dataString).digest()
sha256(data) == << 100 + data >>

\* crypto.sign("sha256", data, {key, padding: RSA_PKCS1_PSS_PADDING})
cryptoSign(data, privateKey, salt) ==
  LET b1 == (0 - privateKey) * 16 + salt
  IN  << b1, (data[1] + 7 * b1) % 256 >>

\* crypto.verify that accepts a signature under any key.
cryptoVerify_anyKey(data, publicKey, sig) ==
  /\ Len(sig) = 2
  /\ Len(data) = 1
  /\ sig[2] = (data[1] + 7 * sig[1]) % 256

\* crypto.verify("sha256", data, {key, padding: RSA_PKCS1_PSS_PADDING}, sig)
cryptoVerify(data, publicKey, sig) ==
  /\ Len(sig) = 2
  /\ Len(data) = 1
  /\ sig[1] \div 16 = publicKey
  /\ sig[2] = (data[1] + 7 * sig[1]) % 256

\* CryptoUtils.sign that returns its texts without the '=' padding.
CryptoUtils_sign_unpadded(data, privateKey, salt) ==
  LET dataHash == sha256(data)
      unpadded(str) == SelectSeq(str, LAMBDA c : c # PadChar)
  IN  [signature |-> unpadded(toBase64(cryptoSign(dataHash, privateKey, salt))),
       userMetaDataHash |-> unpadded(toBase64(dataHash))]

\* CryptoUtils.sign(data, privateKey): digest, sign the digest, encode both.
CryptoUtils_sign(data, privateKey, salt) ==
  LET dataHash == sha256(data)
  IN  [signature |-> toBase64(cryptoSign(dataHash, privateKey, salt)),
       userMetaDataHash |-> toBase64(dataHash)]

\* CryptoUtils.verify without the canonical-form checks (the earlier variant).
CryptoUtils_verify_lenient(dataHash, signature, publicKey) ==
  IF publicKey = BadKey
    THEN [ret |-> FALSE, threw |-> TRUE, cryptoCalled |-> TRUE]
    ELSE [ret |-> cryptoVerify(fromBase64(dataHash), publicKey,
                               fromBase64(signature)),
          threw |-> FALSE, cryptoCalled |-> TRUE]

\* CryptoUtils.verify(dataHash, signature, publicKey).  ret is the returned
\* value, threw tells whether the call raised, cryptoCalled whether
\* crypto.verify was reached.
CryptoUtils_verify(dataHash, signature, publicKey) ==
  IF ~isValidBase64(signature)
    THEN [ret |-> FALSE, threw |-> FALSE, cryptoCalled |-> FALSE]
  ELSE IF ~isValidBase64(dataHash)
    THEN [ret |-> FALSE, threw |-> FALSE, cryptoCalled |-> FALSE]
  ELSE IF publicKey = BadKey
    THEN [ret |-> FALSE, threw |-> TRUE, cryptoCalled |-> TRUE]
  ELSE [ret |-> cryptoVerify(fromBase64(dataHash), publicKey,
                             fromBase64(signature)),
        threw |-> FALSE, cryptoCalled |-> TRUE]

(***************************************************************************)
(* Inputs of the explored runs.                                            *)
(***************************************************************************)
Owners == {"addr_1", "addr_2"}        \* one DeviceOwner per address
Addresses == Owners                   \* callers of the SmartContract
Devices == {"dev_1"}                  \* Device objects used as verifiers
LockIds == 1..MaxLocks                \* lockId arguments (registered or not yet)
UserMetaDatas == {1}                  \* holder metadata values
Nicknames == {"Front Door"}
BogusSignature == << 13, 14, OtherChar >>   \* "no" + a character outside the alphabet

VARIABLES
  sc,               \* SmartContract.instance: lockPublicKeys, lockOwners, revoked, lockCounter
  myDevices,        \* DeviceOwner.myDevices, per owner: sequence of MyDevice
  listOfIssuedVcs,  \* DeviceOwner.listOfIssuedVcs, per owner
  dev,              \* the Device objects: lockId, pubK, revokedSignatures
  vcs,              \* User.vcs
  keyPairs,         \* number of key pairs generated so far (each is fresh)
  salts,            \* number of signatures made so far (each draws a fresh PSS salt)
  handedOut,        \* credentials returned by issueVc so far (held by callers)
  last,             \* the last call: operation, arguments, result
  revokeLog,        \* history: <<lockId, signature>> of successful revokeSignature calls
  mustReject,       \* history: per Device, signatures revoked for its lock before a refresh
  latest,           \* history: per lockId, the credential last stored and not removed since
  returnedIds,      \* history: the values returned by registerLock, in call order
  stored,           \* history: the credentials ever passed to storeVc
  revokedBefore,    \* history: the last call was a direct revokeSignature of a
                    \* signature already in the lock's revoked set
  scenario,         \* history: progress of the calls along the end-to-end scenario
  codecIn,          \* the arguments of a CryptoUtils.verify call under test
  codecOut,         \* what that call did
  signIn,           \* the arguments of a CryptoUtils.sign call under test
  signOut,          \* what that call returned
  lockSc,           \* lock-activation SmartContract.instance: locks, lockCounter
  myLocks,          \* lock-activation DeviceOwner.myLocks, per owner: sequence of MyLock
  lockDev,          \* lock-activation Device objects: lockId, pubK
  acceptedVcs,      \* history: credentials a lock-activation Device has accepted
  refusedVcs        \* history: those of them refused since while their lock was inactive

systemVars == << sc, myDevices, listOfIssuedVcs, dev, vcs, keyPairs, salts,
                 handedOut, last, revokeLog, mustReject, latest, returnedIds,
                 stored, revokedBefore, scenario >>
codecVars == << codecIn, codecOut, signIn, signOut >>
activationVars == << lockSc, myLocks, lockDev, acceptedVcs, refusedVcs >>
vars == << systemVars, codecVars, activationVars >>

\* A Map: a function on the set of its keys.
EmptyMap == [k \in {} |-> 0]
MapSet(m, k, v) == [x \in DOMAIN m \cup {k} |-> IF x = k THEN v ELSE m[x]]

\* Array.prototype.findIndex / find, 1-based, on the sequence of the test's
\* results per element; 0 when no element satisfies the test.
FindIndex(hits) ==
  IF \E i \in 1..Len(hits) : hits[i]
    THEN CHOOSE i \in 1..Len(hits) : hits[i] /\ \A j \in 1..(i - 1) : ~hits[j]
    ELSE 0

\* Array.prototype.splice(index, 1) on a 1-based position.
RemoveAt(seq, i) == SubSeq(seq, 1, i - 1) \o SubSeq(seq, i + 1, Len(seq))

\* The last call as its caller saw it: the operation, its arguments, the
\* error it raised ("none" when it returned), its boolean result (TRUE for a
\* call that returned nothing), a returned lockId.
NoCall == [op |-> "none", args |-> <<>>, err |-> "none", ok |-> FALSE, id |-> 0]

Call(op, args, err, ok, id) ==
  [op |-> op, args |-> args, err |-> err, ok |-> ok, id |-> id]

(***************************************************************************)
(* SmartContract (the registry).                                           *)
(***************************************************************************)
\* constructor
SmartContract_new ==
  [lockPublicKeys |-> EmptyMap, lockOwners |-> EmptyMap,
   revoked |-> EmptyMap, lockCounter |-> 1]

\* registerLock that hands out the counter without advancing it.
SmartContract_registerLock_noIncrement(s, pubK, owner) ==
  [sc |-> [s EXCEPT !.lockPublicKeys = MapSet(@, s.lockCounter, pubK),
                    !.lockOwners = MapSet(@, s.lockCounter, owner)],
   ret |-> s.lockCounter]

\* registerLock that files the owner under the advanced counter.
SmartContract_registerLock_ownerSlot(s, pubK, owner) ==
  LET lockId == s.lockCounter
  IN  [sc |-> [s EXCEPT !.lockCounter = @ + 1,
                        !.lockPublicKeys = MapSet(@, lockId, pubK),
                        !.lockOwners = MapSet(@, lockId + 1, owner)],
       ret |-> lockId]

\* registerLock that records the public key and no owner.
SmartContract_registerLock_keyOnly(s, pubK, owner) ==
  LET lockId == s.lockCounter
  IN  [sc |-> [s EXCEPT !.lockCounter = @ + 1,
                        !.lockPublicKeys = MapSet(@, lockId, pubK)],
       ret |-> lockId]

\* registerLock(pubK, owner): lockId
SmartContract_registerLock(s, pubK, owner) ==
  LET lockId == s.lockCounter
  IN  [sc |-> [s EXCEPT !.lockCounter = @ + 1,
                        !.lockPublicKeys = MapSet(@, lockId, pubK),
                        !.lockOwners = MapSet(@, lockId, owner)],
       ret |-> lockId]

\* revokeSignature without the owner check.
SmartContract_revokeSignature_noOwnerCheck(s, lockId, signature, owner) ==
  IF lockId \notin DOMAIN s.lockOwners
    THEN [sc |-> s, err |-> "NotFound"]
    ELSE [sc |-> [s EXCEPT !.revoked =
                    MapSet(@, lockId,
                           (IF lockId \in DOMAIN @ THEN @[lockId] ELSE {})
                             \cup {signature})],
          err |-> "none"]

\* revokeSignature that starts a new set on every call.
SmartContract_revokeSignature_overwrite(s, lockId, signature, owner) ==
  IF lockId \notin DOMAIN s.lockOwners
    THEN [sc |-> s, err |-> "NotFound"]
  ELSE IF s.lockOwners[lockId] # owner
    THEN [sc |-> s, err |-> "Unauthorized"]
  ELSE [sc |-> [s EXCEPT !.revoked = MapSet(@, lockId, {signature})],
        err |-> "none"]

\* revokeSignature without the test that the lock exists: the owner test
\* then refuses every caller.
SmartContract_revokeSignature_noLockCheck(s, lockId, signature, owner) ==
  IF lockId \notin DOMAIN s.lockOwners \/ s.lockOwners[lockId] # owner
    THEN [sc |-> s, err |-> "Unauthorized"]
  ELSE [sc |-> [s EXCEPT !.revoked =
                  MapSet(@, lockId,
                         (IF lockId \in DOMAIN @ THEN @[lockId] ELSE {})
                           \cup {signature})],
        err |-> "none"]

\* revokeSignature that refuses a signature it has already revoked.
SmartContract_revokeSignature_onceOnly(s, lockId, signature, owner) ==
  IF lockId \notin DOMAIN s.lockOwners
    THEN [sc |-> s, err |-> "NotFound"]
  ELSE IF s.lockOwners[lockId] # owner
    THEN [sc |-> s, err |-> "Unauthorized"]
  ELSE IF lockId \in DOMAIN s.revoked /\ signature \in s.revoked[lockId]
    THEN [sc |-> s, err |-> "AlreadyRevoked"]
  ELSE [sc |-> [s EXCEPT !.revoked =
                  MapSet(@, lockId,
                         (IF lockId \in DOMAIN @ THEN @[lockId] ELSE {})
                           \cup {signature})],
        err |-> "none"]

\* revokeSignature with the owner test inverted.
SmartContract_revokeSignature_nonOwnerOnly(s, lockId, signature, owner) ==
  IF lockId \notin DOMAIN s.lockOwners
    THEN [sc |-> s, err |-> "NotFound"]
  ELSE IF s.lockOwners[lockId] = owner
    THEN [sc |-> s, err |-> "Unauthorized"]
  ELSE [sc |-> [s EXCEPT !.revoked =
                  MapSet(@, lockId,
                         (IF lockId \in DOMAIN @ THEN @[lockId] ELSE {})
                           \cup {signature})],
        err |-> "none"]

\* revokeSignature that enters the signature in the set of every lock.
SmartContract_revokeSignature_allLocks(s, lockId, signature, owner) ==
  IF lockId \notin DOMAIN s.lockOwners
    THEN [sc |-> s, err |-> "NotFound"]
  ELSE IF s.lockOwners[lockId] # owner
    THEN [sc |-> s, err |-> "Unauthorized"]
  ELSE [sc |-> [s EXCEPT !.revoked =
                  [l \in DOMAIN s.lockOwners |->
                     (IF l \in DOMAIN @ THEN @[l] ELSE {}) \cup {signature}]],
        err |-> "none"]

\* revokeSignature(lockId, signature, owner)
SmartContract_revokeSignature(s, lockId, signature, owner) ==
  IF lockId \notin DOMAIN s.lockOwners
    THEN [sc |-> s, err |-> "NotFound"]
  ELSE IF s.lockOwners[lockId] # owner
    THEN [sc |-> s, err |-> "Unauthorized"]
  ELSE [sc |-> [s EXCEPT !.revoked =
                  MapSet(@, lockId,
                         (IF lockId \in DOMAIN @ THEN @[lockId] ELSE {})
                           \cup {signature})],
        err |-> "none"]

\* The registry's revoked set for a lock, empty when it has none.
RevokedFor(s, lockId) ==
  IF lockId \in DOMAIN s.revoked THEN s.revoked[lockId] ELSE {}

\* fetchRevokedSignatures that answers with the set of the first lock.
SmartContract_fetchRevokedSignatures_firstLock(s, lockId) ==
  IF 1 \in DOMAIN s.revoked THEN << s.revoked[1] >> ELSE <<>>

\* fetchRevokedSignatures(lockId): <<set>>, or <<>> for undefined
SmartContract_fetchRevokedSignatures(s, lockId) ==
  IF lockId \in DOMAIN s.revoked THEN << s.revoked[lockId] >> ELSE <<>>

\* isOwner(owner, lockId)
SmartContract_isOwner(s, owner, lockId) ==
  lockId \in DOMAIN s.lockOwners /\ s.lockOwners[lockId] = owner

\* transferOwnership that reports success and writes nothing.
SmartContract_transferOwnership_keepOwner(s, lockId, currentOwner, newOwner) ==
  IF lockId \notin DOMAIN s.lockOwners
    THEN [sc |-> s, err |-> "NotFound"]
  ELSE IF s.lockOwners[lockId] # currentOwner
    THEN [sc |-> s, err |-> "Unauthorized"]
  ELSE [sc |-> s, err |-> "none"]

\* transferOwnership that hands the lock over with an empty revoked set.
SmartContract_transferOwnership_clearsRevoked(s, lockId, currentOwner, newOwner) ==
  IF lockId \notin DOMAIN s.lockOwners
    THEN [sc |-> s, err |-> "NotFound"]
  ELSE IF s.lockOwners[lockId] # currentOwner
    THEN [sc |-> s, err |-> "Unauthorized"]
  ELSE [sc |-> [s EXCEPT !.lockOwners = MapSet(@, lockId, newOwner),
                        !.revoked = MapSet(@, lockId, {})],
        err |-> "none"]

\* transferOwnership(lockId, currentOwner, newOwner)
SmartContract_transferOwnership(s, lockId, currentOwner, newOwner) ==
  IF lockId \notin DOMAIN s.lockOwners
    THEN [sc |-> s, err |-> "NotFound"]
  ELSE IF s.lockOwners[lockId] # currentOwner
    THEN [sc |-> s, err |-> "Unauthorized"]
  ELSE [sc |-> [s EXCEPT !.lockOwners = MapSet(@, lockId, newOwner)],
        err |-> "none"]

\* getTotalLocks()
SmartContract_getTotalLocks(s) == Cardinality(DOMAIN s.lockOwners)

\* fetchPublicKey(lockId): <<key>>, or <<>> for null
SmartContract_fetchPublicKey(s, lockId) ==
  IF lockId \notin DOMAIN s.lockPublicKeys THEN <<>>
  ELSE << s.lockPublicKeys[lockId] >>

(***************************************************************************)
(* DeviceOwner / LockOwner (the authority).                                *)
(***************************************************************************)
\* MyDevice constructor: a Device that also carries the private key.
MyDevice_new(lockId, keyPair, nickname) ==
  [lockId |-> lockId, pubK |-> keyPair.publicKey,
   privateKey |-> keyPair.privateKey, nickname |-> nickname]

\* registerNewDevice that returns the new lock without keeping it.
DeviceOwner_registerNewDevice_notKept(address, mine, s, keyPair, nickname) ==
  LET r == SmartContract_registerLock(s, keyPair.publicKey, address)
      newDevice == MyDevice_new(r.ret, keyPair, nickname)
  IN  [sc |-> r.sc, myDevices |-> mine, ret |-> newDevice]

\* registerNewDevice(nickname) of the owner with this address
DeviceOwner_registerNewDevice(address, mine, s, keyPair, nickname) ==
  LET r == SmartContract_registerLock(s, keyPair.publicKey, address)
      newDevice == MyDevice_new(r.ret, keyPair, nickname)
  IN  [sc |-> r.sc, myDevices |-> Append(mine, newDevice), ret |-> newDevice]

\* issueVc that signs with the key of its first lock when lockId is not one
\* of its own.
DeviceOwner_issueVc_anyLock(mine, issued, lockId, userMetadata, lockNickname, salt) ==
  LET i == FindIndex([k \in 1..Len(mine) |-> mine[k].lockId = lockId])
      d == IF i # 0 THEN i ELSE IF Len(mine) > 0 THEN 1 ELSE 0
  IN  IF d = 0
        THEN [err |-> "NotFound", listOfIssuedVcs |-> issued, vc |-> <<>>]
        ELSE LET signed == CryptoUtils_sign(userMetadata, mine[d].privateKey, salt)
                 vc == [lockId |-> lockId,
                        lockNickname |-> lockNickname,
                        signature |-> signed.signature,
                        userMetaDataHash |-> signed.userMetaDataHash]
             IN  [err |-> "none", listOfIssuedVcs |-> Append(issued, vc),
                  vc |-> << vc >>]

\* issueVc that signs with the key of the authority's first lock.
DeviceOwner_issueVc_firstKey(mine, issued, lockId, userMetadata, lockNickname, salt) ==
  LET i == FindIndex([k \in 1..Len(mine) |-> mine[k].lockId = lockId])
  IN  IF i = 0
        THEN [err |-> "NotFound", listOfIssuedVcs |-> issued, vc |-> <<>>]
        ELSE LET signed == CryptoUtils_sign(userMetadata, mine[1].privateKey, salt)
                 vc == [lockId |-> lockId,
                        lockNickname |-> lockNickname,
                        signature |-> signed.signature,
                        userMetaDataHash |-> signed.userMetaDataHash]
             IN  [err |-> "none", listOfIssuedVcs |-> Append(issued, vc),
                  vc |-> << vc >>]

\* issueVc that puts the encoded metadata where its digest belongs.
DeviceOwner_issueVc_rawData(mine, issued, lockId, userMetadata, lockNickname, salt) ==
  LET i == FindIndex([k \in 1..Len(mine) |-> mine[k].lockId = lockId])
  IN  IF i = 0
        THEN [err |-> "NotFound", listOfIssuedVcs |-> issued, vc |-> <<>>]
        ELSE LET signed == CryptoUtils_sign(userMetadata, mine[i].privateKey, salt)
                 vc == [lockId |-> lockId,
                        lockNickname |-> lockNickname,
                        signature |-> signed.signature,
                        userMetaDataHash |-> toBase64(<< userMetadata >>)]
             IN  [err |-> "none", listOfIssuedVcs |-> Append(issued, vc),
                  vc |-> << vc >>]

\* issueVc(lockId, userMetadata, lockNickname)
DeviceOwner_issueVc(mine, issued, lockId, userMetadata, lockNickname, salt) ==
  LET i == FindIndex([k \in 1..Len(mine) |-> mine[k].lockId = lockId])
  IN  IF i = 0
        THEN [err |-> "NotFound", listOfIssuedVcs |-> issued, vc |-> <<>>]
        ELSE LET signed == CryptoUtils_sign(userMetadata, mine[i].privateKey, salt)
                 vc == [lockId |-> lockId,
                        lockNickname |-> lockNickname,
                        signature |-> signed.signature,
                        userMetaDataHash |-> signed.userMetaDataHash]
             IN  [err |-> "none", listOfIssuedVcs |-> Append(issued, vc),
                  vc |-> << vc >>]

\* revokeAccessWithVc that removes the credential only after the registry
\* accepted the revocation.
DeviceOwner_revokeAccessWithVc_rollback(address, mine, issued, s, lockId, signature) ==
  LET i == FindIndex([k \in 1..Len(mine) |-> mine[k].lockId = lockId])
      j == FindIndex([k \in 1..Len(issued) |-> issued[k].signature = signature])
  IN  IF i = 0 \/ j = 0
        THEN [err |-> "NotFound", listOfIssuedVcs |-> issued, sc |-> s]
        ELSE LET r == SmartContract_revokeSignature(s, lockId, signature, address)
             IN  [err |-> r.err,
                  listOfIssuedVcs |-> IF r.err = "none" THEN RemoveAt(issued, j)
                                      ELSE issued,
                  sc |-> r.sc]

\* revokeAccessWithVc that drops every issued credential of the lock.
DeviceOwner_revokeAccessWithVc_byLock(address, mine, issued, s, lockId, signature) ==
  LET i == FindIndex([k \in 1..Len(mine) |-> mine[k].lockId = lockId])
      j == FindIndex([k \in 1..Len(issued) |-> issued[k].signature = signature])
  IN  IF i = 0
        THEN [err |-> "NotFound", listOfIssuedVcs |-> issued, sc |-> s]
      ELSE IF j = 0
        THEN [err |-> "NotFound", listOfIssuedVcs |-> issued, sc |-> s]
      ELSE LET r == SmartContract_revokeSignature(s, lockId, signature, address)
           IN  [err |-> r.err,
                listOfIssuedVcs |-> SelectSeq(issued, LAMBDA v : v.lockId # lockId),
                sc |-> r.sc]

\* revokeAccessWithVc that does not look the lock up in the owner's list.
DeviceOwner_revokeAccessWithVc_noLockCheck(address, mine, issued, s, lockId, signature) ==
  LET j == FindIndex([k \in 1..Len(issued) |-> issued[k].signature = signature])
  IN  IF j = 0
        THEN [err |-> "NotFound", listOfIssuedVcs |-> issued, sc |-> s]
      ELSE LET r == SmartContract_revokeSignature(s, lockId, signature, address)
           IN  [err |-> r.err, listOfIssuedVcs |-> RemoveAt(issued, j),
                sc |-> r.sc]

\* revokeAccessWithVc(lockId, signature)
DeviceOwner_revokeAccessWithVc(address, mine, issued, s, lockId, signature) ==
  LET i == FindIndex([k \in 1..Len(mine) |-> mine[k].lockId = lockId])
      j == FindIndex([k \in 1..Len(issued) |-> issued[k].signature = signature])
  IN  IF i = 0
        THEN [err |-> "NotFound", listOfIssuedVcs |-> issued, sc |-> s]
      ELSE IF j = 0
        THEN [err |-> "NotFound", listOfIssuedVcs |-> issued, sc |-> s]
      ELSE LET r == SmartContract_revokeSignature(s, lockId, signature, address)
           IN  [err |-> r.err, listOfIssuedVcs |-> RemoveAt(issued, j),
                sc |-> r.sc]

(***************************************************************************)
(* Device (the verifier).                                                  *)
(***************************************************************************)
NoDevice == [made |-> FALSE, lockId |-> 0, pubK |-> 0, revokedSignatures |-> {}]

\* constructor(lockId, pubK)
Device_new(lockId, pubK) ==
  [made |-> TRUE, lockId |-> lockId, pubK |-> pubK, revokedSignatures |-> {}]

\* fetchPubK that drops the cached key when the registry has none.
Device_fetchPubK_forget(d, s) ==
  LET fetchedPubK == SmartContract_fetchPublicKey(s, d.lockId)
  IN  IF fetchedPubK = <<>>
        THEN [dev |-> [d EXCEPT !.pubK = BadKey], ret |-> FALSE]
        ELSE [dev |-> [d EXCEPT !.pubK = fetchedPubK[1]], ret |-> TRUE]

\* fetchPubK()
Device_fetchPubK(d, s) ==
  LET fetchedPubK == SmartContract_fetchPublicKey(s, d.lockId)
  IN  IF fetchedPubK = <<>>
        THEN [dev |-> d, ret |-> FALSE]
        ELSE [dev |-> [d EXCEPT !.pubK = fetchedPubK[1]], ret |-> TRUE]

\* fetchRevokedSignatures that never copies anything.
Device_fetchRevokedSignatures_noop(d, s) == d

\* fetchRevokedSignatures that replaces the cache by the registry's set.
Device_fetchRevokedSignatures_replace(d, s) ==
  LET revokedSigs == SmartContract_fetchRevokedSignatures(s, d.lockId)
  IN  IF revokedSigs = <<>> THEN d
      ELSE [d EXCEPT !.revokedSignatures = revokedSigs[1]]

\* fetchRevokedSignatures that copies the revoked sets of all locks.
Device_fetchRevokedSignatures_allLocks(d, s) ==
  [d EXCEPT !.revokedSignatures =
     @ \cup UNION {s.revoked[l] : l \in DOMAIN s.revoked}]

\* fetchRevokedSignatures()
Device_fetchRevokedSignatures(d, s) ==
  LET revokedSigs == SmartContract_fetchRevokedSignatures(s, d.lockId)
  IN  IF revokedSigs = <<>> THEN d
      ELSE [d EXCEPT !.revokedSignatures = @ \cup revokedSigs[1]]

\* setLockId(lockId)
Device_setLockId(d, lockId) == [d EXCEPT !.lockId = lockId]

\* verifyVc that refuses every credential once anything is revoked.
Device_verifyVc_anyRevoked(d, vc) ==
  IF vc = <<>> THEN FALSE
  ELSE IF d.revokedSignatures # {} THEN FALSE
  ELSE CryptoUtils_verify(vc[1].userMetaDataHash, vc[1].signature, d.pubK).ret

\* verifyVc(vc); vc is << >> for an absent credential
Device_verifyVc(d, vc) ==
  IF vc = <<>> THEN FALSE
  ELSE IF vc[1].signature \in d.revokedSignatures THEN FALSE
  ELSE CryptoUtils_verify(vc[1].userMetaDataHash, vc[1].signature, d.pubK).ret

(***************************************************************************)
(* User (the holder).                                                      *)
(***************************************************************************)
\* storeVc that always appends.
User_storeVc_append(store, vc) == Append(store, vc)

\* storeVc(vc)
User_storeVc(store, vc) ==
  LET existingVcIndex == FindIndex([k \in 1..Len(store) |-> store[k].lockId = vc.lockId])
  IN  IF existingVcIndex # 0 THEN [store EXCEPT ![existingVcIndex] = vc]
      ELSE Append(store, vc)

\* removeVc(index), index 0-based
User_removeVc(store, index) ==
  IF index < Len(store) THEN RemoveAt(store, index + 1) ELSE store

\* removeVcForLock that removes the first credential of the store.
User_removeVcForLock_first(store, lockId) ==
  IF Len(store) > 0 THEN [vcs |-> Tail(store), ret |-> TRUE]
  ELSE [vcs |-> store, ret |-> FALSE]

\* removeVcForLock(lockId)
User_removeVcForLock(store, lockId) ==
  LET index == FindIndex([k \in 1..Len(store) |-> store[k].lockId = lockId])
  IN  IF index # 0 THEN [vcs |-> RemoveAt(store, index), ret |-> TRUE]
      ELSE [vcs |-> store, ret |-> FALSE]

\* getCredentialForLock(lockId): <<vc>>, or <<>> for undefined
User_getCredentialForLock(store, lockId) ==
  LET index == FindIndex([k \in 1..Len(store) |-> store[k].lockId = lockId])
  IN  IF index # 0 THEN << store[index] >> ELSE <<>>

(***************************************************************************)
(* The lock-activation variant: the SmartContract keeps one Lock object    *)
(* per lockId with an isActive flag (smart-contract.ts), the DeviceOwner   *)
(* keeps MyLock objects with a flag of their own, and the Device asks the  *)
(* SmartContract on every verification (device.ts).  Lock.createdAt is     *)
(* written once and never read, and is left out.                           *)
(***************************************************************************)
\* Lock constructor, isActive defaulting to true
Lock_new(lockId, owner, publicKey) ==
  [lockId |-> lockId, owner |-> owner, publicKey |-> publicKey,
   isActive |-> TRUE]

\* Lock.isOwnedBy(address)
Lock_isOwnedBy(lock, address) == lock.owner = address

\* MyLock constructor: a Lock that also carries the private key.
MyLock_new(lockId, owner, keyPair, nickname) ==
  [lockId |-> lockId, owner |-> owner, publicKey |-> keyPair.publicKey,
   isActive |-> TRUE, privateKey |-> keyPair.privateKey, nickname |-> nickname]

\* constructor
LockContract_new == [locks |-> EmptyMap, lockCounter |-> 1]

\* registerLock(pubK, owner): lockId
LockContract_registerLock(s, pubK, owner) ==
  LET lockId == s.lockCounter
  IN  [sc |-> [s EXCEPT !.lockCounter = @ + 1,
                        !.locks = MapSet(@, lockId, Lock_new(lockId, owner, pubK))],
       ret |-> lockId]

\* revokeLock without the owner check.
LockContract_revokeLock_noOwnerCheck(s, lockId, owner) ==
  IF lockId \notin DOMAIN s.locks
    THEN [sc |-> s, err |-> "NotFound"]
    ELSE [sc |-> [s EXCEPT !.locks[lockId].isActive = FALSE], err |-> "none"]

\* revokeLock(lockId, owner)
LockContract_revokeLock(s, lockId, owner) ==
  IF lockId \notin DOMAIN s.locks
    THEN [sc |-> s, err |-> "NotFound"]
  ELSE IF ~Lock_isOwnedBy(s.locks[lockId], owner)
    THEN [sc |-> s, err |-> "Unauthorized"]
  ELSE [sc |-> [s EXCEPT !.locks[lockId].isActive = FALSE], err |-> "none"]

\* activateLock(lockId, owner)
LockContract_activateLock(s, lockId, owner) ==
  IF lockId \notin DOMAIN s.locks
    THEN [sc |-> s, err |-> "NotFound"]
  ELSE IF ~Lock_isOwnedBy(s.locks[lockId], owner)
    THEN [sc |-> s, err |-> "Unauthorized"]
  ELSE [sc |-> [s EXCEPT !.locks[lockId].isActive = TRUE], err |-> "none"]

\* transferOwnership(lockId, currentOwner, newOwner)
LockContract_transferOwnership(s, lockId, currentOwner, newOwner) ==
  IF lockId \notin DOMAIN s.locks
    THEN [sc |-> s, err |-> "NotFound"]
  ELSE IF ~Lock_isOwnedBy(s.locks[lockId], currentOwner)
    THEN [sc |-> s, err |-> "Unauthorized"]
  ELSE [sc |-> [s EXCEPT !.locks[lockId].owner = newOwner], err |-> "none"]

\* isOwner(owner, lockId)
LockContract_isOwner(s, owner, lockId) ==
  IF lockId \in DOMAIN s.locks THEN Lock_isOwnedBy(s.locks[lockId], owner)
  ELSE FALSE

\* isLockActive(lockId)
LockContract_isLockActive(s, lockId) ==
  IF lockId \in DOMAIN s.locks THEN s.locks[lockId].isActive ELSE FALSE

\* fetchPublicKey(lockId): <<key>>, or <<>> for null
LockContract_fetchPublicKey(s, lockId) ==
  IF lockId \notin DOMAIN s.locks THEN <<>>
  ELSE IF ~s.locks[lockId].isActive THEN <<>>
  ELSE << s.locks[lockId].publicKey >>

\* DeviceOwner.registerNewLock(nickname) of the owner with this address
LockOwner_registerNewLock(address, mine, s, keyPair, nickname) ==
  LET r == LockContract_registerLock(s, keyPair.publicKey, address)
      newLock == MyLock_new(r.ret, address, keyPair, nickname)
  IN  [sc |-> r.sc, myLocks |-> Append(mine, newLock), ret |-> newLock]

\* DeviceOwner.issueVc(lockId, userMetadata, lockNickname)
LockOwner_issueVc(mine, issued, lockId, userMetadata, lockNickname, salt) ==
  LET i == FindIndex([k \in 1..Len(mine) |-> mine[k].lockId = lockId])
  IN  IF i = 0
        THEN [err |-> "NotFound", listOfIssuedVcs |-> issued, vc |-> <<>>]
      ELSE IF ~mine[i].isActive
        THEN [err |-> "NotActive", listOfIssuedVcs |-> issued, vc |-> <<>>]
      ELSE LET signed == CryptoUtils_sign(userMetadata, mine[i].privateKey, salt)
               vc == [lockId |-> lockId,
                      lockNickname |-> lockNickname,
                      signature |-> signed.signature,
                      userMetaDataHash |-> signed.userMetaDataHash]
           IN  [err |-> "none", listOfIssuedVcs |-> Append(issued, vc),
                vc |-> << vc >>]

\* DeviceOwner.activateLock(lockId): the SmartContract first, then the
\* local lock.
LockOwner_activateLock(address, mine, s, lockId) ==
  LET i == FindIndex([k \in 1..Len(mine) |-> mine[k].lockId = lockId])
  IN  IF i = 0 THEN [err |-> "NotFound", myLocks |-> mine, sc |-> s]
      ELSE LET r == LockContract_activateLock(s, lockId, address)
           IN  IF r.err # "none"
                 THEN [err |-> r.err, myLocks |-> mine, sc |-> r.sc]
                 ELSE [err |-> "none",
                       myLocks |-> [mine EXCEPT ![i].isActive = TRUE],
                       sc |-> r.sc]

\* DeviceOwner.revokeLock(lockId): the local lock first, then the
\* SmartContract.
LockOwner_revokeLock(address, mine, s, lockId) ==
  LET i == FindIndex([k \in 1..Len(mine) |-> mine[k].lockId = lockId])
  IN  IF i = 0 THEN [err |-> "NotFound", myLocks |-> mine, sc |-> s]
      ELSE LET r == LockContract_revokeLock(s, lockId, address)
           IN  [err |-> r.err,
                myLocks |-> [mine EXCEPT ![i].isActive = FALSE],
                sc |-> r.sc]

NoLockDevice == [made |-> FALSE, lockId |-> 0, pubK |-> 0]

\* Device constructor(lockId, pubK)
LockDevice_new(lockId, pubK) == [made |-> TRUE, lockId |-> lockId, pubK |-> pubK]

\* Device.fetchPubK()
LockDevice_fetchPubK(d, s) ==
  LET fetchedPubK == LockContract_fetchPublicKey(s, d.lockId)
  IN  IF fetchedPubK = <<>>
        THEN [dev |-> d, ret |-> FALSE]
        ELSE [dev |-> [d EXCEPT !.pubK = fetchedPubK[1]], ret |-> TRUE]

\* Device.setLockId(lockId)
LockDevice_setLockId(d, lockId) == [d EXCEPT !.lockId = lockId]

\* Device.verifyVc that trusts its own key and never asks the SmartContract.
LockDevice_verifyVc_cachedKey(d, s, vc) ==
  IF vc = <<>> \/ vc[1].lockId = 0 \/ vc[1].lockId # d.lockId
    THEN [dev |-> d, ret |-> FALSE]
    ELSE [dev |-> d,
          ret |-> CryptoUtils_verify(vc[1].userMetaDataHash, vc[1].signature,
                                     d.pubK).ret]

\* Device.verifyVc(vc); vc is << >> for an absent credential
LockDevice_verifyVc(d, s, vc) ==
  IF vc = <<>> \/ vc[1].lockId = 0 \/ vc[1].lockId # d.lockId
    THEN [dev |-> d, ret |-> FALSE]
  ELSE IF ~LockContract_isLockActive(s, d.lockId)
    THEN [dev |-> d, ret |-> FALSE]
  ELSE LET r == LockDevice_fetchPubK(d, s)
       IN  IF ~r.ret THEN [dev |-> r.dev, ret |-> FALSE]
           ELSE [dev |-> r.dev,
                 ret |-> CryptoUtils_verify(vc[1].userMetaDataHash,
                                            vc[1].signature, r.dev.pubK).ret]

(***************************************************************************)
(* The system: initial state and one action per call.                      *)
(***************************************************************************)
(***************************************************************************)
(* The end-to-end scenario, followed along the calls as they happen:       *)
(*   1 the authority registers lock L        5 the verifier verifies V1    *)
(*   2 it issues V1 for L                    6 the authority issues V2     *)
(*   3 the verifier for L verifies V1        7 the holder stores V2        *)
(*   4 the authority revokes V1's signature  8 the verifier verifies V2    *)
(* phase is the number of the last step done.  Constructing the verifier   *)
(* and handing V1 to the holder do not interrupt the scenario; any other   *)
(* call does.                                                              *)
(***************************************************************************)
NoScenario == [phase |-> 0, owner |-> "", lockId |-> 0, dev |-> "",
               v1 |-> <<>>, v2 |-> <<>>]

Track(sn, call, devs) ==
  IF call.op = "registerNewDevice"
    THEN [NoScenario EXCEPT !.phase = 1, !.owner = call.args[1],
                            !.lockId = call.id]
  ELSE IF call.op = "newDevice" THEN sn
  ELSE IF sn.phase = 1 /\ call.op = "issueVc" /\ call.ok
          /\ call.args[1] = sn.owner /\ call.args[2] = sn.lockId
    THEN [sn EXCEPT !.phase = 2, !.v1 = call.args[3]]
  ELSE IF sn.phase = 2 /\ call.op = "storeVc" /\ << call.args[1] >> = sn.v1
    THEN sn
  ELSE IF sn.phase = 2 /\ call.op = "verifyVc" /\ call.args[2] = sn.v1
          /\ devs[call.args[1]].lockId = sn.lockId
    THEN [sn EXCEPT !.phase = 3, !.dev = call.args[1]]
  ELSE IF sn.phase = 3 /\ call.op = "revokeAccessWithVc" /\ call.ok
          /\ call.args = << sn.owner, sn.lockId, sn.v1[1].signature >>
    THEN [sn EXCEPT !.phase = 4]
  ELSE IF sn.phase = 4 /\ call.op = "verifyVc"
          /\ call.args = << sn.dev, sn.v1 >>
    THEN [sn EXCEPT !.phase = 5]
  ELSE IF sn.phase = 5 /\ call.op = "issueVc" /\ call.ok
          /\ call.args[1] = sn.owner /\ call.args[2] = sn.lockId
    THEN [sn EXCEPT !.phase = 6, !.v2 = call.args[3]]
  ELSE IF sn.phase = 6 /\ call.op = "storeVc" /\ << call.args[1] >> = sn.v2
    THEN [sn EXCEPT !.phase = 7]
  ELSE IF sn.phase = 7 /\ call.op = "verifyVc"
          /\ call.args = << sn.dev, sn.v2 >>
    THEN [sn EXCEPT !.phase = 8]
  ELSE NoScenario

NoVerifyCall == [done |-> FALSE, ret |-> FALSE, threw |-> FALSE,
                 cryptoCalled |-> FALSE]
NoVerifyArgs == [dataHash |-> <<>>, signature |-> <<>>, publicKey |-> BadKey]
NoSignArgs == [data |-> 0, privateKey |-> BadKey, salt |-> 0]
NoSignCall == [done |-> FALSE, signature |-> <<>>, userMetaDataHash |-> <<>>]

SystemInit ==
  /\ sc = SmartContract_new
  /\ myDevices = [o \in Owners |-> <<>>]
  /\ listOfIssuedVcs = [o \in Owners |-> <<>>]
  /\ dev = [d \in Devices |-> NoDevice]
  /\ vcs = <<>>
  /\ keyPairs = 0
  /\ salts = 0
  /\ handedOut = {}
  /\ last = NoCall
  /\ revokeLog = {}
  /\ mustReject = [d \in Devices |-> {}]
  /\ latest = [l \in LockIds |-> <<>>]
  /\ returnedIds = <<>>
  /\ stored = {}
  /\ revokedBefore = FALSE
  /\ scenario = NoScenario
  /\ lockSc = LockContract_new
  /\ myLocks = [o \in Owners |-> <<>>]
  /\ lockDev = [d \in Devices |-> NoLockDevice]
  /\ acceptedVcs = {}
  /\ refusedVcs = {}

Init ==
  /\ SystemInit
  /\ codecIn = NoVerifyArgs
  /\ codecOut = NoVerifyCall
  /\ signIn = NoSignArgs
  /\ signOut = NoSignCall

\* Signatures a caller may name: those of the credentials handed out; an
\* authority may also be asked to revoke one that was never issued.
IssuedSigs == {v.signature : v \in handedOut}
SigInputs == IssuedSigs \cup {BogusSignature}

\* Credentials a caller may present: those handed out, with the (unsigned)
\* lockId field as issued or rewritten, or none at all.
VcInputs ==
  {<<>>} \cup {<< [v EXCEPT !.lockId = l] >> : v \in handedOut, l \in LockIds}

\* owner.registerNewDevice(nickname)
RegisterNewDevice(o, n) ==
  /\ Len(returnedIds) < MaxLocks
  /\ LET r == DeviceOwner_registerNewDevice(o, myDevices[o], sc,
                                            CryptoUtils_generateKeyPair(keyPairs + 1), n)
     IN  /\ sc' = r.sc
         /\ myDevices' = [myDevices EXCEPT ![o] = r.myDevices]
         /\ returnedIds' = Append(returnedIds, r.ret.lockId)
         /\ last' = Call("registerNewDevice", << o, r.ret >>, "none", TRUE,
                         r.ret.lockId)
  /\ keyPairs' = keyPairs + 1
  /\ scenario' = Track(scenario, last', dev)
  /\ revokedBefore' = FALSE
  /\ UNCHANGED << stored, codecVars, activationVars >>
  /\ UNCHANGED << listOfIssuedVcs, dev, vcs, salts, handedOut, revokeLog,
                  mustReject, latest >>

\* smartContract.revokeSignature(l, s, a), called directly
RevokeSignature(l, s, a) ==
  /\ LET r == SmartContract_revokeSignature(sc, l, s, a)
     IN  /\ sc' = r.sc
         /\ revokeLog' = IF r.err = "none" THEN revokeLog \cup {<< l, s >>}
                         ELSE revokeLog
         /\ last' = Call("revokeSignature", << l >>, r.err, r.err = "none", 0)
  /\ scenario' = Track(scenario, last', dev)
  /\ revokedBefore' = (s \in RevokedFor(sc, l))
  /\ UNCHANGED << stored, codecVars, activationVars >>
  /\ UNCHANGED << myDevices, listOfIssuedVcs, dev, vcs, keyPairs, salts,
                  handedOut, mustReject, latest, returnedIds >>

\* smartContract.transferOwnership(l, cur, new), called directly
TransferOwnership(l, cur, new) ==
  /\ LET r == SmartContract_transferOwnership(sc, l, cur, new)
     IN  /\ sc' = r.sc
         /\ last' = Call("transferOwnership", << l >>, r.err, r.err = "none", 0)
  /\ scenario' = Track(scenario, last', dev)
  /\ revokedBefore' = FALSE
  /\ UNCHANGED << stored, codecVars, activationVars >>
  /\ UNCHANGED << myDevices, listOfIssuedVcs, dev, vcs, keyPairs, salts,
                  handedOut, revokeLog, mustReject, latest, returnedIds >>

\* owner.issueVc(l, m, n) that asks the registry whether the caller owns l.
IssueVc_ownerChecked(o, l, m, n) ==
  /\ LET r0 == DeviceOwner_issueVc(myDevices[o], listOfIssuedVcs[o], l, m, n,
                                   salts + 1)
         r == IF r0.err = "none" /\ ~SmartContract_isOwner(sc, o, l)
                THEN [err |-> "Unauthorized",
                      listOfIssuedVcs |-> listOfIssuedVcs[o], vc |-> <<>>]
                ELSE r0
     IN  /\ r.err = "none" => salts < MaxIssued
         /\ listOfIssuedVcs' = [listOfIssuedVcs EXCEPT ![o] = r.listOfIssuedVcs]
         /\ salts' = IF r.err = "none" THEN salts + 1 ELSE salts
         /\ handedOut' = IF r.err = "none" THEN handedOut \cup {r.vc[1]}
                         ELSE handedOut
         /\ last' = Call("issueVc", << o, l, r.vc >>, r.err, r.err = "none", 0)
  /\ scenario' = Track(scenario, last', dev)
  /\ revokedBefore' = FALSE
  /\ UNCHANGED << stored, codecVars, activationVars >>
  /\ UNCHANGED << sc, myDevices, dev, vcs, keyPairs, revokeLog, mustReject, latest,
                  returnedIds >>

\* owner.issueVc(l, m, n)
IssueVc(o, l, m, n) ==
  /\ LET r == DeviceOwner_issueVc(myDevices[o], listOfIssuedVcs[o], l, m, n,
                                  salts + 1)
     IN  /\ r.err = "none" => salts < MaxIssued
         /\ listOfIssuedVcs' = [listOfIssuedVcs EXCEPT ![o] = r.listOfIssuedVcs]
         /\ salts' = IF r.err = "none" THEN salts + 1 ELSE salts
         /\ handedOut' = IF r.err = "none" THEN handedOut \cup {r.vc[1]}
                         ELSE handedOut
         /\ last' = Call("issueVc", << o, l, r.vc >>, r.err, r.err = "none", 0)
  /\ scenario' = Track(scenario, last', dev)
  /\ revokedBefore' = FALSE
  /\ UNCHANGED << stored, codecVars, activationVars >>
  /\ UNCHANGED << sc, myDevices, dev, vcs, keyPairs, revokeLog, mustReject, latest,
                  returnedIds >>

\* owner.revokeAccessWithVc(l, s)
RevokeAccessWithVc(o, l, s) ==
  /\ LET r == DeviceOwner_revokeAccessWithVc(o, myDevices[o], listOfIssuedVcs[o],
                                             sc, l, s)
     IN  /\ sc' = r.sc
         /\ listOfIssuedVcs' = [listOfIssuedVcs EXCEPT ![o] = r.listOfIssuedVcs]
         /\ revokeLog' = IF r.err = "none" THEN revokeLog \cup {<< l, s >>}
                         ELSE revokeLog
         /\ last' = Call("revokeAccessWithVc", << o, l, s >>, r.err, r.err = "none", 0)
  /\ scenario' = Track(scenario, last', dev)
  /\ revokedBefore' = FALSE
  /\ UNCHANGED << stored, codecVars, activationVars >>
  /\ UNCHANGED << myDevices, dev, vcs, keyPairs, salts, handedOut, mustReject,
                  latest, returnedIds >>

\* new Device(m.lockId, m.pubK) for a registered MyDevice m
NewDevice(d, o, i) ==
  /\ ~dev[d].made
  /\ i \in 1..Len(myDevices[o])
  /\ dev' = [dev EXCEPT ![d] = Device_new(myDevices[o][i].lockId,
                                          myDevices[o][i].pubK)]
  /\ last' = Call("newDevice", << d >>, "none", TRUE, 0)
  /\ scenario' = Track(scenario, last', dev)
  /\ revokedBefore' = FALSE
  /\ UNCHANGED << stored, codecVars, activationVars >>
  /\ UNCHANGED << sc, myDevices, listOfIssuedVcs, vcs, keyPairs, salts,
                  handedOut, revokeLog, mustReject, latest, returnedIds >>

\* device.fetchPubK()
FetchPubK(d) ==
  /\ dev[d].made
  /\ LET r == Device_fetchPubK(dev[d], sc)
     IN  /\ dev' = [dev EXCEPT ![d] = r.dev]
         /\ last' = Call("fetchPubK", << d >>, "none", r.ret, 0)
  /\ scenario' = Track(scenario, last', dev)
  /\ revokedBefore' = FALSE
  /\ UNCHANGED << stored, codecVars, activationVars >>
  /\ UNCHANGED << sc, myDevices, listOfIssuedVcs, vcs, keyPairs, salts,
                  handedOut, revokeLog, mustReject, latest, returnedIds >>

\* device.fetchRevokedSignatures()
FetchRevokedSignatures(d) ==
  /\ dev[d].made
  /\ dev' = [dev EXCEPT ![d] = Device_fetchRevokedSignatures(dev[d], sc)]
  /\ mustReject' = [mustReject EXCEPT ![d] =
                      @ \cup {p[2] : p \in {q \in revokeLog : q[1] = dev[d].lockId}}]
  /\ last' = Call("fetchRevokedSignatures", << d >>, "none", TRUE, 0)
  /\ scenario' = Track(scenario, last', dev)
  /\ revokedBefore' = FALSE
  /\ UNCHANGED << stored, codecVars, activationVars >>
  /\ UNCHANGED << sc, myDevices, listOfIssuedVcs, vcs, keyPairs, salts,
                  handedOut, revokeLog, latest, returnedIds >>

\* device.setLockId(l)
SetLockId(d, l) ==
  /\ dev[d].made
  /\ dev' = [dev EXCEPT ![d] = Device_setLockId(dev[d], l)]
  /\ last' = Call("setLockId", << d, l >>, "none", TRUE, 0)
  /\ scenario' = Track(scenario, last', dev)
  /\ revokedBefore' = FALSE
  /\ UNCHANGED << stored, codecVars, activationVars >>
  /\ UNCHANGED << sc, myDevices, listOfIssuedVcs, vcs, keyPairs, salts,
                  handedOut, revokeLog, mustReject, latest, returnedIds >>

\* device.verifyVc(vc) that also enters an accepted signature in the
\* registry's revoked set of the Device's lock.
VerifyVc_recording(d, vc) ==
  /\ dev[d].made
  /\ last' = Call("verifyVc", << d, vc >>, "none", Device_verifyVc(dev[d], vc), 0)
  /\ sc' = IF last'.ok
             THEN [sc EXCEPT !.revoked =
                     MapSet(@, dev[d].lockId,
                            RevokedFor(sc, dev[d].lockId) \cup {vc[1].signature})]
             ELSE sc
  /\ scenario' = Track(scenario, last', dev)
  /\ revokedBefore' = FALSE
  /\ UNCHANGED << stored, codecVars, activationVars >>
  /\ UNCHANGED << myDevices, listOfIssuedVcs, dev, vcs, keyPairs, salts,
                  handedOut, revokeLog, mustReject, latest, returnedIds >>

\* device.verifyVc(vc) that pulls the registry's revoked set into the cache
\* before it looks the signature up.
VerifyVc_refreshing(d, vc) ==
  /\ dev[d].made
  /\ dev' = [dev EXCEPT ![d] = Device_fetchRevokedSignatures(dev[d], sc)]
  /\ last' = Call("verifyVc", << d, vc >>, "none", Device_verifyVc(dev'[d], vc), 0)
  /\ scenario' = Track(scenario, last', dev)
  /\ revokedBefore' = FALSE
  /\ UNCHANGED << stored, codecVars, activationVars >>
  /\ UNCHANGED << sc, myDevices, listOfIssuedVcs, vcs, keyPairs, salts,
                  handedOut, revokeLog, mustReject, latest, returnedIds >>

\* device.verifyVc(vc)
VerifyVc(d, vc) ==
  /\ dev[d].made
  /\ last' = Call("verifyVc", << d, vc >>, "none", Device_verifyVc(dev[d], vc), 0)
  /\ scenario' = Track(scenario, last', dev)
  /\ revokedBefore' = FALSE
  /\ UNCHANGED << stored, codecVars, activationVars >>
  /\ UNCHANGED << sc, myDevices, listOfIssuedVcs, dev, vcs, keyPairs, salts,
                  handedOut, revokeLog, mustReject, latest, returnedIds >>

\* user.storeVc(vc)
StoreVc(vc) ==
  /\ vcs' = User_storeVc(vcs, vc)
  /\ latest' = [latest EXCEPT ![vc.lockId] = << vc >>]
  /\ stored' = stored \cup {vc}
  /\ last' = Call("storeVc", << vc >>, "none", TRUE, 0)
  /\ scenario' = Track(scenario, last', dev)
  /\ revokedBefore' = FALSE
  /\ UNCHANGED << codecVars, activationVars >>
  /\ UNCHANGED << sc, myDevices, listOfIssuedVcs, dev, keyPairs, salts,
                  handedOut, revokeLog, mustReject, returnedIds >>

\* user.removeVc(index)
RemoveVc(index) ==
  /\ vcs' = User_removeVc(vcs, index)
  /\ latest' = IF index < Len(vcs)
                 THEN [latest EXCEPT ![vcs[index + 1].lockId] = <<>>]
                 ELSE latest
  /\ last' = Call("removeVc", << index >>, "none", index < Len(vcs), 0)
  /\ scenario' = Track(scenario, last', dev)
  /\ revokedBefore' = FALSE
  /\ UNCHANGED << stored, codecVars, activationVars >>
  /\ UNCHANGED << sc, myDevices, listOfIssuedVcs, dev, keyPairs, salts,
                  handedOut, revokeLog, mustReject, returnedIds >>

\* user.removeVcForLock(l)
RemoveVcForLock(l) ==
  /\ LET r == User_removeVcForLock(vcs, l)
     IN  /\ vcs' = r.vcs
         /\ last' = Call("removeVcForLock", << l >>, "none", r.ret, 0)
  /\ latest' = [latest EXCEPT ![l] = <<>>]
  /\ scenario' = Track(scenario, last', dev)
  /\ revokedBefore' = FALSE
  /\ UNCHANGED << stored, codecVars, activationVars >>
  /\ UNCHANGED << sc, myDevices, listOfIssuedVcs, dev, keyPairs, salts,
                  handedOut, revokeLog, mustReject, returnedIds >>

\* smartContract.fetchRevokedSignatures(l), called directly
ScFetchRevokedSignatures(l) ==
  /\ last' = Call("sc.fetchRevokedSignatures",
                  << l, SmartContract_fetchRevokedSignatures(sc, l) >>,
                  "none", TRUE, 0)
  /\ scenario' = Track(scenario, last', dev)
  /\ revokedBefore' = FALSE
  /\ UNCHANGED << stored, codecVars, activationVars >>
  /\ UNCHANGED << sc, myDevices, listOfIssuedVcs, dev, vcs, keyPairs, salts,
                  handedOut, revokeLog, mustReject, latest, returnedIds >>

\* Calls on the registry and by the authorities in O.
AuthorityCalls(O) ==
  \/ \E o \in O, n \in Nicknames : RegisterNewDevice(o, n)
  \/ \E l \in LockIds, s \in IssuedSigs, a \in Addresses : RevokeSignature(l, s, a)
  \/ \E l \in LockIds, cur \in Addresses, new \in Addresses :
       TransferOwnership(l, cur, new)
  \/ \E o \in O, l \in LockIds, m \in UserMetaDatas, n \in Nicknames :
       IssueVc(o, l, m, n)
  \/ \E o \in O, l \in LockIds, s \in SigInputs : RevokeAccessWithVc(o, l, s)

\* Calls on the verifiers.
DeviceCalls ==
  \/ \E d \in Devices, o \in Owners, i \in 1..MaxLocks : NewDevice(d, o, i)
  \/ \E d \in Devices : FetchPubK(d)
  \/ \E d \in Devices : FetchRevokedSignatures(d)
  \/ \E d \in Devices, l \in LockIds : SetLockId(d, l)
  \/ \E d \in Devices, vc \in VcInputs : VerifyVc(d, vc)

\* Calls on the holder.
UserCalls ==
  \/ \E vc \in handedOut : StoreVc(vc)
  \/ \E index \in 0..Len(vcs) : RemoveVc(index)
  \/ \E l \in LockIds : RemoveVcForLock(l)

\* The registry with both authorities.
Next == AuthorityCalls(Owners)

Spec == Init /\ [][Next]_vars

\* Signature texts handed to the registry directly.
RegistrySigs ==
  {CryptoUtils_sign(1, -1, 1).signature, CryptoUtils_sign(1, -1, 2).signature}

\* The registry alone: locks registered by both authorities and direct calls
\* by both addresses.
NextRegistry ==
  \/ \E o \in Owners, n \in Nicknames : RegisterNewDevice(o, n)
  \/ \E l \in LockIds, s \in RegistrySigs, a \in Addresses :
       RevokeSignature(l, s, a)
  \/ \E l \in LockIds, cur \in Addresses, new \in Addresses :
       TransferOwnership(l, cur, new)
  \/ \E l \in LockIds : ScFetchRevokedSignatures(l)

SpecRegistry == Init /\ [][NextRegistry]_vars

\* One authority, the registry (whose locks may be transferred between the
\* addresses) and a verifier.
NextVerifier ==
  \/ \E n \in Nicknames : RegisterNewDevice("addr_1", n)
  \/ \E l \in LockIds, cur \in Addresses, new \in Addresses :
       TransferOwnership(l, cur, new)
  \/ \E l \in LockIds, m \in UserMetaDatas, n \in Nicknames :
       IssueVc("addr_1", l, m, n)
  \/ \E l \in LockIds, s \in SigInputs : RevokeAccessWithVc("addr_1", l, s)
  \/ DeviceCalls

SpecVerifier == Init /\ [][NextVerifier]_vars

\* One authority handing credentials to the holder.
NextHolder ==
  \/ \E n \in Nicknames : RegisterNewDevice("addr_1", n)
  \/ \E l \in LockIds, m \in UserMetaDatas, n \in Nicknames :
       IssueVc("addr_1", l, m, n)
  \/ UserCalls

SpecHolder == Init /\ [][NextHolder]_vars

\* The calls of the end-to-end scenario, in any order and number.
NextEndToEnd ==
  \/ \E n \in Nicknames : RegisterNewDevice("addr_1", n)
  \/ \E l \in LockIds, m \in UserMetaDatas, n \in Nicknames :
       IssueVc("addr_1", l, m, n)
  \/ \E l \in LockIds, s \in SigInputs : RevokeAccessWithVc("addr_1", l, s)
  \/ \E d \in Devices, o \in Owners, i \in 1..MaxLocks : NewDevice(d, o, i)
  \/ \E d \in Devices, vc \in VcInputs : VerifyVc(d, vc)
  \/ \E vc \in handedOut : StoreVc(vc)

SpecEndToEnd == Init /\ [][NextEndToEnd]_vars

\* One authority, the registry with direct revocations by both addresses, and a
\* verifier that keeps the lockId it was constructed with.
NextFixedVerifier ==
  \/ \E n \in Nicknames : RegisterNewDevice("addr_1", n)
  \/ \E l \in LockIds, s \in IssuedSigs, a \in Addresses : RevokeSignature(l, s, a)
  \/ \E l \in LockIds, m \in UserMetaDatas, n \in Nicknames :
       IssueVc("addr_1", l, m, n)
  \/ \E l \in LockIds, s \in SigInputs : RevokeAccessWithVc("addr_1", l, s)
  \/ \E d \in Devices, o \in Owners, i \in 1..MaxLocks : NewDevice(d, o, i)
  \/ \E d \in Devices : FetchPubK(d)
  \/ \E d \in Devices : FetchRevokedSignatures(d)
  \/ \E d \in Devices, vc \in VcInputs : VerifyVc(d, vc)

SpecFixedVerifier == Init /\ [][NextFixedVerifier]_vars

\* One authority whose locks the registry may hand to the other address,
\* direct revocations by both addresses, and a verifier that keeps its
\* lockId and refreshes its revoked cache.
NextDiverged ==
  \/ \E n \in Nicknames : RegisterNewDevice("addr_1", n)
  \/ \E l \in LockIds, s \in IssuedSigs, a \in Addresses : RevokeSignature(l, s, a)
  \/ \E l \in LockIds, cur \in Addresses, new \in Addresses :
       TransferOwnership(l, cur, new)
  \/ \E l \in LockIds, m \in UserMetaDatas, n \in Nicknames :
       IssueVc("addr_1", l, m, n)
  \/ \E l \in LockIds, s \in SigInputs : RevokeAccessWithVc("addr_1", l, s)
  \/ \E d \in Devices, o \in Owners, i \in 1..MaxLocks : NewDevice(d, o, i)
  \/ \E d \in Devices : FetchRevokedSignatures(d)
  \/ \E d \in Devices, v \in handedOut : VerifyVc(d, << v >>)

SpecDiverged == Init /\ [][NextDiverged]_vars

(***************************************************************************)
(* CryptoUtils.verify as a function of its arguments: a digest and a       *)
(* signature made by CryptoUtils.sign, each as made or with its text       *)
(* changed, under the signer's key, another key or no key at all.          *)
(***************************************************************************)
\* Texts an attacker derives from str: padding stripped, a character
\* appended, one character replaced or advanced by one.
Mutations(str) ==
  {str}
    \cup {SubSeq(str, 1, Len(str) - k) : k \in 1..2}
    \cup {str \o << c >> : c \in {0, 5, PadChar, OtherChar}}
    \cup {[str EXCEPT ![i] = c] :
            i \in 1..Len(str), c \in {1, PadChar, OtherChar}}
    \cup {[str EXCEPT ![i] = (str[i] + 1) % 64] :
            i \in {j \in 1..Len(str) : str[j] \in Alphabet}}

SignedOnce == CryptoUtils_sign(1, CryptoUtils_generateKeyPair(1).privateKey, 1)

CodecInit ==
  /\ SystemInit
  /\ codecIn \in [dataHash : Mutations(SignedOnce.userMetaDataHash),
                  signature : Mutations(SignedOnce.signature),
                  publicKey : {BadKey, 1, 2}]
  /\ codecOut = NoVerifyCall
  /\ signIn = NoSignArgs
  /\ signOut = NoSignCall

\* CryptoUtils.verify(codecIn.dataHash, codecIn.signature, codecIn.publicKey)
CodecVerify ==
  /\ ~codecOut.done
  /\ LET r == CryptoUtils_verify(codecIn.dataHash, codecIn.signature,
                                 codecIn.publicKey)
     IN  codecOut' = [done |-> TRUE, ret |-> r.ret, threw |-> r.threw,
                      cryptoCalled |-> r.cryptoCalled]
  /\ UNCHANGED << codecIn, signIn, signOut, systemVars, activationVars >>

NextCodec == CodecVerify

SpecCodec == CodecInit /\ [][NextCodec]_vars

(***************************************************************************)
(* CryptoUtils.sign followed by CryptoUtils.verify: a message is signed    *)
(* with the private key of one pair, and the signature is then verified    *)
(* against a digest text and a public key of the caller's choice.          *)
(***************************************************************************)
SignKeyPairs == {CryptoUtils_generateKeyPair(k) : k \in 1..MaxKeys}
SignSalts == 1..MaxSalts
SignDatas == 0..MaxData

\* Digest texts a verifier may be handed: the canonical encodings of the
\* digests of the messages, of no bytes and of a digest with a byte added.
DigestTexts ==
  {toBase64(sha256(m)) : m \in SignDatas}
    \cup {toBase64(<<>>), toBase64(sha256(0) \o << 0 >>)}

SignInit ==
  /\ SystemInit
  /\ codecIn = NoVerifyArgs
  /\ codecOut = NoVerifyCall
  /\ signIn \in [data : SignDatas,
                 privateKey : {kp.privateKey : kp \in SignKeyPairs},
                 salt : SignSalts]
  /\ signOut = NoSignCall

\* CryptoUtils.sign(signIn.data, signIn.privateKey)
SignCall ==
  /\ ~signOut.done
  /\ LET r == CryptoUtils_sign(signIn.data, signIn.privateKey, signIn.salt)
     IN  signOut' = [done |-> TRUE, signature |-> r.signature,
                     userMetaDataHash |-> r.userMetaDataHash]
  /\ UNCHANGED << signIn, codecIn, codecOut, systemVars, activationVars >>

\* CryptoUtils.verify(dataHash, signOut.signature, publicKey)
SignedVerify(dataHash, publicKey) ==
  /\ signOut.done
  /\ ~codecOut.done
  /\ codecIn' = [dataHash |-> dataHash, signature |-> signOut.signature,
                 publicKey |-> publicKey]
  /\ LET r == CryptoUtils_verify(dataHash, signOut.signature, publicKey)
     IN  codecOut' = [done |-> TRUE, ret |-> r.ret, threw |-> r.threw,
                      cryptoCalled |-> r.cryptoCalled]
  /\ UNCHANGED << signIn, signOut, systemVars, activationVars >>

NextSign ==
  \/ SignCall
  \/ \E h \in DigestTexts, kp \in SignKeyPairs : SignedVerify(h, kp.publicKey)

SpecSign == SignInit /\ [][NextSign]_vars

(***************************************************************************)
(* The lock-activation variant: one action per call.                       *)
(***************************************************************************)
\* What the calls of the lock-activation variant leave alone.
lockFrame == << sc, myDevices, dev, vcs, revokeLog, mustReject, latest,
                returnedIds, stored, revokedBefore, scenario, codecVars >>

\* owner.registerNewLock(nickname)
RegisterNewLock(o, n) ==
  /\ lockSc.lockCounter <= MaxLocks
  /\ LET r == LockOwner_registerNewLock(o, myLocks[o], lockSc,
                                        CryptoUtils_generateKeyPair(keyPairs + 1), n)
     IN  /\ lockSc' = r.sc
         /\ myLocks' = [myLocks EXCEPT ![o] = r.myLocks]
         /\ last' = Call("registerNewLock", << o, r.ret >>, "none", TRUE,
                         r.ret.lockId)
  /\ keyPairs' = keyPairs + 1
  /\ UNCHANGED << lockDev, acceptedVcs, refusedVcs, listOfIssuedVcs, salts,
                  handedOut, lockFrame >>

\* smartContract.revokeLock(l, a), called directly
LockRevokeLock(l, a) ==
  /\ LET r == LockContract_revokeLock(lockSc, l, a)
     IN  /\ lockSc' = r.sc
         /\ last' = Call("sc.revokeLock", << l, a >>, r.err, r.err = "none", 0)
  /\ UNCHANGED << myLocks, lockDev, acceptedVcs, refusedVcs, listOfIssuedVcs,
                  keyPairs, salts, handedOut, lockFrame >>

\* smartContract.activateLock(l, a), called directly
LockActivateLock(l, a) ==
  /\ LET r == LockContract_activateLock(lockSc, l, a)
     IN  /\ lockSc' = r.sc
         /\ last' = Call("sc.activateLock", << l, a >>, r.err, r.err = "none", 0)
  /\ UNCHANGED << myLocks, lockDev, acceptedVcs, refusedVcs, listOfIssuedVcs,
                  keyPairs, salts, handedOut, lockFrame >>

\* smartContract.transferOwnership(l, cur, new), called directly
LockTransferOwnership(l, cur, new) ==
  /\ LET r == LockContract_transferOwnership(lockSc, l, cur, new)
     IN  /\ lockSc' = r.sc
         /\ last' = Call("sc.transferOwnership", << l >>, r.err, r.err = "none", 0)
  /\ UNCHANGED << myLocks, lockDev, acceptedVcs, refusedVcs, listOfIssuedVcs,
                  keyPairs, salts, handedOut, lockFrame >>

\* owner.revokeLock(l)
OwnerRevokeLock(o, l) ==
  /\ LET r == LockOwner_revokeLock(o, myLocks[o], lockSc, l)
     IN  /\ lockSc' = r.sc
         /\ myLocks' = [myLocks EXCEPT ![o] = r.myLocks]
         /\ last' = Call("revokeLock", << o, l >>, r.err, r.err = "none", 0)
  /\ UNCHANGED << lockDev, acceptedVcs, refusedVcs, listOfIssuedVcs, keyPairs,
                  salts, handedOut, lockFrame >>

\* owner.activateLock(l)
OwnerActivateLock(o, l) ==
  /\ LET r == LockOwner_activateLock(o, myLocks[o], lockSc, l)
     IN  /\ lockSc' = r.sc
         /\ myLocks' = [myLocks EXCEPT ![o] = r.myLocks]
         /\ last' = Call("activateLock", << o, l >>, r.err, r.err = "none", 0)
  /\ UNCHANGED << lockDev, acceptedVcs, refusedVcs, listOfIssuedVcs, keyPairs,
                  salts, handedOut, lockFrame >>

\* owner.issueVc(l, m, n)
LockIssueVc(o, l, m, n) ==
  /\ LET r == LockOwner_issueVc(myLocks[o], listOfIssuedVcs[o], l, m, n, salts + 1)
     IN  /\ r.err = "none" => salts < MaxIssued
         /\ listOfIssuedVcs' = [listOfIssuedVcs EXCEPT ![o] = r.listOfIssuedVcs]
         /\ salts' = IF r.err = "none" THEN salts + 1 ELSE salts
         /\ handedOut' = IF r.err = "none" THEN handedOut \cup {r.vc[1]}
                         ELSE handedOut
         /\ last' = Call("issueVc", << o, l, r.vc >>, r.err, r.err = "none", 0)
  /\ UNCHANGED << lockSc, myLocks, lockDev, acceptedVcs, refusedVcs, keyPairs,
                  lockFrame >>

\* new Device(lock.lockId, lock.getPublicKey()) for a registered MyLock
NewLockDevice(d, o, i) ==
  /\ ~lockDev[d].made
  /\ i \in 1..Len(myLocks[o])
  /\ lockDev' = [lockDev EXCEPT ![d] = LockDevice_new(myLocks[o][i].lockId,
                                                      myLocks[o][i].publicKey)]
  /\ last' = Call("newDevice", << d >>, "none", TRUE, 0)
  /\ UNCHANGED << lockSc, myLocks, acceptedVcs, refusedVcs, listOfIssuedVcs,
                  keyPairs, salts, handedOut, lockFrame >>

\* device.fetchPubK()
LockFetchPubK(d) ==
  /\ lockDev[d].made
  /\ LET r == LockDevice_fetchPubK(lockDev[d], lockSc)
     IN  /\ lockDev' = [lockDev EXCEPT ![d] = r.dev]
         /\ last' = Call("fetchPubK", << d >>, "none", r.ret, 0)
  /\ UNCHANGED << lockSc, myLocks, acceptedVcs, refusedVcs, listOfIssuedVcs,
                  keyPairs, salts, handedOut, lockFrame >>

\* device.setLockId(l)
LockSetLockId(d, l) ==
  /\ lockDev[d].made
  /\ lockDev' = [lockDev EXCEPT ![d] = LockDevice_setLockId(lockDev[d], l)]
  /\ last' = Call("setLockId", << d, l >>, "none", TRUE, 0)
  /\ UNCHANGED << lockSc, myLocks, acceptedVcs, refusedVcs, listOfIssuedVcs,
                  keyPairs, salts, handedOut, lockFrame >>

\* device.verifyVc(vc)
LockVerifyVc(d, vc) ==
  /\ lockDev[d].made
  /\ LET r == LockDevice_verifyVc(lockDev[d], lockSc, vc)
     IN  /\ lockDev' = [lockDev EXCEPT ![d] = r.dev]
         /\ last' = Call("verifyVc", << d, vc >>, "none", r.ret, 0)
         /\ acceptedVcs' = IF r.ret THEN acceptedVcs \cup {vc[1]} ELSE acceptedVcs
         /\ refusedVcs' =
              IF /\ ~r.ret
                 /\ vc # <<>>
                 /\ vc[1] \in acceptedVcs
                 /\ vc[1].lockId = lockDev[d].lockId
                 /\ ~LockContract_isLockActive(lockSc, lockDev[d].lockId)
                THEN refusedVcs \cup {vc[1]}
                ELSE refusedVcs
  /\ UNCHANGED << lockSc, myLocks, listOfIssuedVcs, keyPairs, salts, handedOut,
                  lockFrame >>

\* The SmartContract of the lock-activation variant with both authorities
\* and direct calls by both addresses.
NextLockRegistry ==
  \/ \E o \in Owners, n \in Nicknames : RegisterNewLock(o, n)
  \/ \E l \in LockIds, a \in Addresses : LockRevokeLock(l, a)
  \/ \E l \in LockIds, a \in Addresses : LockActivateLock(l, a)
  \/ \E l \in LockIds, cur \in Addresses, new \in Addresses :
       LockTransferOwnership(l, cur, new)
  \/ \E o \in Owners, l \in LockIds : OwnerRevokeLock(o, l)
  \/ \E o \in Owners, l \in LockIds : OwnerActivateLock(o, l)

SpecLockRegistry == Init /\ [][NextLockRegistry]_vars

\* The lock-activation variant end to end: one authority, the SmartContract
\* (whose locks may be transferred between the addresses) and a Device.
NextActivation ==
  \/ \E n \in Nicknames : RegisterNewLock("addr_1", n)
  \/ \E l \in LockIds, cur \in Addresses, new \in Addresses :
       LockTransferOwnership(l, cur, new)
  \/ \E l \in LockIds : OwnerRevokeLock("addr_1", l)
  \/ \E l \in LockIds : OwnerActivateLock("addr_1", l)
  \/ \E l \in LockIds, m \in UserMetaDatas, n \in Nicknames :
       LockIssueVc("addr_1", l, m, n)
  \/ \E d \in Devices, i \in 1..MaxLocks : NewLockDevice(d, "addr_1", i)
  \/ \E d \in Devices : LockFetchPubK(d)
  \/ \E d \in Devices, l \in LockIds : LockSetLockId(d, l)
  \/ \E d \in Devices, vc \in VcInputs : LockVerifyVc(d, vc)

SpecActivation == Init /\ [][NextActivation]_vars

(***************************************************************************)
(* Properties.                                                             *)
(***************************************************************************)
\* C1 Revocation monotonicity: once a signature has been successfully
\* revoked in the registry for a lock and the Device for that lock has then
\* refreshed its cache with fetchRevokedSignatures, every later verifyVc on
\* that Device of a credential carrying the signature returns false,
\* whatever calls come in between.
RevocationMonotonicity ==
  (/\ last.op = "verifyVc"
   /\ last.args[2] # <<>>
   /\ last.args[2][1].signature \in mustReject[last.args[1]])
    => ~last.ok

\* C1 happens: a credential revoked and refreshed long ago (the lock has
\* changed owner and another credential has been issued since) is refused,
\* although its signature still verifies under the Device's key.
RevokedStaysRejected ==
  /\ last.op = "verifyVc"
  /\ last.args[2] # <<>>
  /\ LET d  == last.args[1]
         vc == last.args[2][1]
     IN  /\ vc.signature \in mustReject[d]
         /\ ~last.ok
         /\ CryptoUtils_verify(vc.userMetaDataHash, vc.signature,
                               dev[d].pubK).ret
         /\ vc \in handedOut
         /\ vc.lockId = dev[d].lockId
         /\ vc.lockId \in DOMAIN sc.lockOwners
         /\ sc.lockOwners[vc.lockId] = "addr_2"
         /\ salts = 2

\* C2 Cross-lock rejection: a Device whose lockId is A returns false from
\* verifyVc for every credential whose lockId field is not A, valid
\* signature or not.
CrossLockRejection ==
  (/\ last.op = "verifyVc"
   /\ last.args[2] # <<>>
   /\ last.args[2][1].lockId # dev[last.args[1]].lockId)
    => ~last.ok

\* C3 Ownership gating: revokeSignature and transferOwnership called for a
\* registered lock by an address that is not its current owner fail with
\* Unauthorized and leave the registry as it was.
OwnershipGating ==
  [][\A l \in LockIds, a \in Addresses :
       (l \in DOMAIN sc.lockOwners /\ sc.lockOwners[l] # a) =>
         /\ \A s \in SigInputs :
              RevokeSignature(l, s, a) =>
                (last'.err = "Unauthorized" /\ sc' = sc)
         /\ \A b \in Addresses :
              TransferOwnership(l, a, b) =>
                (last'.err = "Unauthorized" /\ sc' = sc)]_vars

\* C3 happens: the authority that registered a lock and gave it away is
\* refused when it calls revokeSignature on it.
FormerOwnerRefused ==
  /\ last.op = "revokeSignature"
  /\ last.err = "Unauthorized"
  /\ last.args[1] \in DOMAIN sc.lockOwners
  /\ sc.lockOwners[last.args[1]] = "addr_2"
  /\ \E i \in 1..Len(myDevices["addr_1"]) :
       myDevices["addr_1"][i].lockId = last.args[1]

\* A text is the canonical base64 encoding of some bytes (RFC 4648): whole
\* groups of four characters of the alphabet, the last group ending in at
\* most two '=', and no stray bits in the character before the padding.
CanonicalForm(str) ==
  LET n    == Len(str)
      pads == IF n >= 1 /\ str[n] = PadChar
                THEN (IF n >= 2 /\ str[n - 1] = PadChar THEN 2 ELSE 1)
                ELSE 0
      body == n - pads
  IN  /\ n % 4 = 0
      /\ \A i \in 1..body : str[i] \in Alphabet
      /\ pads = 1 => str[body] % 4 = 0
      /\ pads = 2 => str[body] % 16 = 0

\* C4 Canonical-form rejection: when the digest or the signature text is
\* not a canonical base64 encoding, CryptoUtils.verify returns false as a
\* value, without throwing and without reaching the cryptographic
\* verification, under every public key.
CanonicalFormRejection ==
  (/\ codecOut.done
   /\ \/ ~CanonicalForm(codecIn.dataHash)
      \/ ~CanonicalForm(codecIn.signature))
    => (~codecOut.ret /\ ~codecOut.threw /\ ~codecOut.cryptoCalled)

\* C4 happens: a signature text changed so that it still decodes to the
\* signed bytes is refused under the signer's own key.
TamperedTextRejected ==
  /\ codecOut.done
  /\ codecIn.dataHash = SignedOnce.userMetaDataHash
  /\ codecIn.publicKey = 1
  /\ codecIn.signature # SignedOnce.signature
  /\ fromBase64(codecIn.signature) = fromBase64(SignedOnce.signature)
  /\ ~codecOut.ret
  /\ ~codecOut.cryptoCalled

\* C5 End-to-end scenario: with exactly the steps register L, issue V1,
\* verify V1, revoke V1's signature, verify V1, issue V2, store V2, verify
\* V2 on one verifier for L, the first verification returns true, the one
\* right after the revocation returns false, storing V2 leaves the holder
\* with V2 as its one credential for L, and the last verification returns
\* true.
EndToEndScenario ==
  /\ scenario.phase = 3 => last.ok
  /\ scenario.phase = 5 => ~last.ok
  /\ scenario.phase = 7 =>
       /\ User_getCredentialForLock(vcs, scenario.lockId) = scenario.v2
       /\ Cardinality({i \in 1..Len(vcs) : vcs[i].lockId = scenario.lockId}) = 1
  /\ scenario.phase = 8 => last.ok

\* The authority o has registered lock l, holds an issued credential with
\* signature s, and the registry names another owner for l.
FoundButNotOwner(o, l, s) ==
  /\ \E i \in 1..Len(myDevices[o]) : myDevices[o][i].lockId = l
  /\ \E j \in 1..Len(listOfIssuedVcs[o]) : listOfIssuedVcs[o][j].signature = s
  /\ l \in DOMAIN sc.lockOwners
  /\ sc.lockOwners[l] # o

\* The call removed one credential from o's issued list, and none with
\* signature s is left in it.
RemovedLocally(o, s) ==
  /\ Len(listOfIssuedVcs'[o]) = Len(listOfIssuedVcs[o]) - 1
  /\ \A j \in 1..Len(listOfIssuedVcs'[o]) :
       listOfIssuedVcs'[o][j].signature # s

\* C6 as stated: when revokeAccessWithVc(L, s) finds the issued credential
\* and the registry refuses the revocation as Unauthorized, the call fails,
\* the credential is gone from the issued list, and s is not in the
\* registry's revoked set for L.
NoRollbackNeverRevoked ==
  [][\A o \in Owners, l \in LockIds, s \in SigInputs :
       (FoundButNotOwner(o, l, s) /\ RevokeAccessWithVc(o, l, s)) =>
         /\ last'.err = "Unauthorized"
         /\ RemovedLocally(o, s)
         /\ s \notin RevokedFor(sc', l)]_vars

\* C6 No rollback on failed registry revocation: when revokeAccessWithVc(L,
\* s) finds the issued credential and the registry refuses the revocation
\* as Unauthorized, the call fails, the credential is gone from the issued
\* list, and the registry is as it was before the call: the call has not put
\* s into the revoked set for L.
NoRollback ==
  [][\A o \in Owners, l \in LockIds, s \in SigInputs :
       (FoundButNotOwner(o, l, s) /\ RevokeAccessWithVc(o, l, s)) =>
         /\ last'.err = "Unauthorized"
         /\ RemovedLocally(o, s)
         /\ sc' = sc
         /\ s \notin RevokedFor(sc, l) => s \notin RevokedFor(sc', l)]_vars

\* C6 happens: a revocation failed as Unauthorized, and the signature of a
\* credential handed out by that authority is now neither in its issued list
\* nor in the registry's revoked set for the lock.
RemovedButNotRevoked ==
  /\ last.op = "revokeAccessWithVc"
  /\ last.err = "Unauthorized"
  /\ LET o == last.args[1]
         l == last.args[2]
         s == last.args[3]
     IN  /\ s \in IssuedSigs
         /\ \A j \in 1..Len(listOfIssuedVcs[o]) :
              listOfIssuedVcs[o][j].signature # s
         /\ s \notin RevokedFor(sc, l)
         /\ sc.lockOwners[l] # o

\* C7 revokeAccessWithVc(lockId, signature) fails with NotFound and changes
\* nothing when the authority's issued list has no credential with both that
\* signature and that lockId.
RevokeNeedsBothFields ==
  [][\A o \in Owners, l \in LockIds, s \in SigInputs :
       (/\ ~\E j \in 1..Len(listOfIssuedVcs[o]) :
               /\ listOfIssuedVcs[o][j].signature = s
               /\ listOfIssuedVcs[o][j].lockId = l
        /\ RevokeAccessWithVc(o, l, s)) =>
         /\ last'.err = "NotFound"
         /\ listOfIssuedVcs' = listOfIssuedVcs
         /\ sc' = sc]_vars

\* C8 One credential per lock at the holder: the store never has two
\* credentials with the same lockId, and getCredentialForLock(l) is the
\* credential most recently stored for l and not removed since, or nothing.
OneCredentialPerLock ==
  \A l \in LockIds :
    /\ Cardinality({i \in 1..Len(vcs) : vcs[i].lockId = l}) <= 1
    /\ User_getCredentialForLock(vcs, l) = latest[l]

\* C8 happens: the holder stored a credential for a lock after having stored
\* another one for the same lock, and holds only the later one.
LaterReplacesEarlier ==
  /\ last.op = "storeVc"
  /\ \E v \in stored :
       /\ v # last.args[1]
       /\ v.lockId = last.args[1].lockId
       /\ \A i \in 1..Len(vcs) : vcs[i] # v
  /\ User_getCredentialForLock(vcs, last.args[1].lockId) = << last.args[1] >>

\* C9 registerLock returns 1 on its first call and n on its n-th call, so
\* never the same lockId twice.
SequentialLockIds ==
  /\ \A n \in 1..Len(returnedIds) : returnedIds[n] = n
  /\ last.op = "registerNewDevice" => last.id = Len(returnedIds)

\* C9 happens: the second registration returned 2, with a revocation and a
\* change of owner on the first lock in between.
SecondLockIsTwo ==
  /\ last.op = "registerNewDevice"
  /\ returnedIds = << 1, 2 >>
  /\ RevokedFor(sc, 1) # {}
  /\ sc.lockOwners[1] # sc.lockOwners[2]

\* The locks of all authorities, as << owner, position in myDevices >>.
AllMyDevices == {p \in Owners \X (1..MaxLocks) : p[2] <= Len(myDevices[p[1]])}

\* C10 Two registerLock calls made at the same time by two authorities (the
\* calls run one after the other, in either order) return distinct lockIds,
\* and afterwards both records are in the registry, each with the public key
\* and the owner its own call gave: each call writes a fresh record and
\* leaves the records already there as they were.
ConcurrentRegistration ==
  /\ [](\A p \in AllMyDevices, q \in AllMyDevices :
          LET m == myDevices[p[1]][p[2]]
          IN  /\ p # q => m.lockId # myDevices[q[1]][q[2]].lockId
              /\ m.lockId \in DOMAIN sc.lockOwners
              /\ m.lockId \in DOMAIN sc.lockPublicKeys
              /\ sc.lockPublicKeys[m.lockId] = m.pubK)
  /\ [][\A o \in Owners, n \in Nicknames :
          RegisterNewDevice(o, n) =>
            /\ last'.id \notin DOMAIN sc.lockOwners
            /\ last'.id \in DOMAIN sc'.lockOwners
            /\ sc'.lockOwners[last'.id] = o
            /\ sc'.lockPublicKeys[last'.id] = keyPairs'
            /\ \A l \in DOMAIN sc.lockOwners :
                 /\ sc'.lockOwners[l] = sc.lockOwners[l]
                 /\ sc'.lockPublicKeys[l] = sc.lockPublicKeys[l]]_vars

\* C10 happens: the two authorities registered one right after the other,
\* and the registry holds lock 1 and lock 2, each under its own authority
\* and key.
BothRegistered ==
  /\ last.op = "registerNewDevice"
  /\ Len(myDevices["addr_1"]) = 1
  /\ Len(myDevices["addr_2"]) = 1
  /\ salts = 0
  /\ \A o \in Owners :
       /\ sc.lockOwners[myDevices[o][1].lockId] = o
       /\ sc.lockPublicKeys[myDevices[o][1].lockId] = myDevices[o][1].pubK
  /\ myDevices["addr_1"][1].lockId # myDevices["addr_2"][1].lockId
  /\ myDevices["addr_1"][1].pubK # myDevices["addr_2"][1].pubK

\* C11 Registry mutations on one lock are atomic under every interleaving
\* of the callers: every signature whose revokeSignature call succeeded is
\* in the lock's revoked set (no lost update); a revokeSignature call on a
\* registered lock either succeeds entirely, adding exactly its signature,
\* when its caller owns the lock at that moment, or fails with Unauthorized
\* and adds nothing; and a transferOwnership leaves the revoked sets alone.
RegistryAtomicity ==
  /\ [](\A p \in revokeLog : p[2] \in RevokedFor(sc, p[1]))
  /\ [][\A l \in LockIds, a \in Addresses :
          /\ \A s \in RegistrySigs :
               (l \in DOMAIN sc.lockOwners /\ RevokeSignature(l, s, a)) =>
                 IF sc.lockOwners[l] = a
                   THEN /\ last'.err = "none"
                        /\ sc' = [sc EXCEPT !.revoked =
                                    MapSet(@, l, RevokedFor(sc, l) \cup {s})]
                   ELSE last'.err = "Unauthorized" /\ sc' = sc
          /\ \A b \in Addresses :
               TransferOwnership(l, a, b) => sc'.revoked = sc.revoked]_vars

\* C11 happens: two signatures were revoked for one lock in separate calls
\* on a lock that has also changed hands, and both are in its revoked set.
BothRevocationsKept ==
  /\ last.op = "revokeSignature"
  /\ last.ok
  /\ RevokedFor(sc, last.args[1]) = RegistrySigs
  /\ sc.lockOwners[last.args[1]] = "addr_2"
  /\ \E i \in 1..Len(myDevices["addr_1"]) :
       myDevices["addr_1"][i].lockId = last.args[1]

\* C12 issueVc(lockId, metadata, label) fails with NotFound when lockId is
\* not among the calling authority's own registered locks, whoever owns or
\* registered that lock; the call then returns no credential and changes
\* neither any issued list nor the registry.
IssueNeedsOwnLock ==
  [][\A o \in Owners, l \in LockIds, m \in UserMetaDatas, n \in Nicknames :
       (/\ \A i \in 1..Len(myDevices[o]) : myDevices[o][i].lockId # l
        /\ IssueVc(o, l, m, n)) =>
         /\ last'.err = "NotFound"
         /\ last'.args[3] = <<>>
         /\ listOfIssuedVcs' = listOfIssuedVcs
         /\ handedOut' = handedOut
         /\ sc' = sc]_vars

\* C12 happens: an authority with a lock of its own was refused a
\* credential for a lock that another authority registered, although the
\* registry names it as that lock's owner.
IssueRefusedForForeignLock ==
  /\ last.op = "issueVc"
  /\ last.err = "NotFound"
  /\ Len(myDevices[last.args[1]]) > 0
  /\ last.args[2] \in DOMAIN sc.lockOwners
  /\ sc.lockOwners[last.args[2]] = last.args[1]

\* The signatures revoked so far for a lock, from the successful calls.
RevokedSoFar(l) == {p[2] : p \in {q \in revokeLog : q[1] = l}}

\* C13 SmartContract.fetchRevokedSignatures(lockId) returns a set for every
\* registered lockId, the empty one when nothing has been revoked for it,
\* and reports not-found only for a lockId never registered; the set is
\* exactly the signatures revoked so far for that lock.
FetchRevokedReturnsSet ==
  last.op = "sc.fetchRevokedSignatures" =>
    IF last.args[1] \in DOMAIN sc.lockOwners
      THEN last.args[2] = << RevokedSoFar(last.args[1]) >>
      ELSE last.args[2] = <<>>

\* C14 A successful transferOwnership(L, cur, new) replaces the owner of L
\* in one step: afterwards isOwner(new, L) is true and isOwner(a, L) is
\* false for every other address a; the public keys, the revoked sets, the
\* counter and the owners of all other locks are as before.
TransferReplacesOwner ==
  [][\A l \in LockIds, cur \in Addresses, new \in Addresses :
       (TransferOwnership(l, cur, new) /\ last'.err = "none") =>
         /\ SmartContract_isOwner(sc', new, l)
         /\ \A a \in Addresses \ {new} : ~SmartContract_isOwner(sc', a, l)
         /\ sc'.lockPublicKeys = sc.lockPublicKeys
         /\ sc'.revoked = sc.revoked
         /\ sc'.lockCounter = sc.lockCounter
         /\ DOMAIN sc'.lockOwners = DOMAIN sc.lockOwners
         /\ \A k \in DOMAIN sc.lockOwners \ {l} :
              sc'.lockOwners[k] = sc.lockOwners[k]]_vars

\* C14 happens: a lock with a revoked signature, registered by one authority
\* beside another lock, has just been transferred to the other address.
OwnerReplaced ==
  /\ last.op = "transferOwnership"
  /\ last.ok
  /\ SmartContract_isOwner(sc, "addr_2", last.args[1])
  /\ ~SmartContract_isOwner(sc, "addr_1", last.args[1])
  /\ \E i \in 1..Len(myDevices["addr_1"]) :
       myDevices["addr_1"][i].lockId = last.args[1]
  /\ RevokedFor(sc, last.args[1]) # {}
  /\ SmartContract_getTotalLocks(sc) = 2

\* C15 revokeSignature and transferOwnership on a lockId that was never
\* registered fail with NotFound whatever the caller, and leave the registry
\* unchanged: no owner, public key or revoked set appears for that lockId.
UnknownLockNotFound ==
  [][\A l \in LockIds, a \in Addresses :
       l \notin DOMAIN sc.lockOwners =>
         /\ \A s \in RegistrySigs :
              RevokeSignature(l, s, a) =>
                /\ last'.err = "NotFound"
                /\ sc' = sc
                /\ l \notin DOMAIN sc'.lockOwners \cup DOMAIN sc'.lockPublicKeys
                                  \cup DOMAIN sc'.revoked
         /\ \A b \in Addresses :
              TransferOwnership(l, a, b) =>
                /\ last'.err = "NotFound"
                /\ sc' = sc
                /\ l \notin DOMAIN sc'.lockOwners \cup DOMAIN sc'.lockPublicKeys
                                  \cup DOMAIN sc'.revoked]_vars

\* C15 happens: with one lock registered, a revokeSignature call naming the
\* next, unregistered lockId was refused as NotFound.
UnknownLockRefused ==
  /\ last.op = "revokeSignature"
  /\ last.err = "NotFound"
  /\ SmartContract_getTotalLocks(sc) = 1
  /\ last.args[1] \notin DOMAIN sc.lockOwners
  /\ last.args[1] \notin DOMAIN sc.revoked

\* C16 revokeSignature is idempotent: a call by the current owner for a
\* signature already in the lock's revoked set returns without error and
\* leaves the registry exactly as it was.
RevokeIdempotent ==
  [][\A l \in LockIds, s \in RegistrySigs, a \in Addresses :
       (/\ SmartContract_isOwner(sc, a, l)
        /\ s \in RevokedFor(sc, l)
        /\ RevokeSignature(l, s, a)) =>
         (last'.err = "none" /\ sc' = sc)]_vars

\* C16 happens: the owner's revokeSignature call for a signature that was
\* already revoked has returned normally.
RevokedAgain ==
  /\ last.op = "revokeSignature"
  /\ last.ok
  /\ revokedBefore
  /\ RevokedFor(sc, last.args[1]) # {}

\* C17 Device.fetchRevokedSignatures is a set union: afterwards the cache is
\* the previous cache united with the registry's revoked set for the
\* Device's lockId, the Device is unchanged when the registry has no set for
\* that lock, and no call of any kind ever takes an entry out of the cache.
RefreshIsUnion ==
  [][\A d \in Devices :
       /\ FetchRevokedSignatures(d) =>
            /\ dev'[d].revokedSignatures =
                 dev[d].revokedSignatures \cup RevokedFor(sc, dev[d].lockId)
            /\ dev[d].lockId \notin DOMAIN sc.revoked => dev'[d] = dev[d]
       /\ dev[d].revokedSignatures \subseteq dev'[d].revokedSignatures]_vars

\* C17 happens: after a refresh the cache holds two signatures, one of them
\* from an earlier refresh and not in the registry's set for the Device's
\* present lock.
CacheKeepsEarlierEntries ==
  /\ last.op = "fetchRevokedSignatures"
  /\ LET d == last.args[1]
     IN  /\ Cardinality(dev[d].revokedSignatures) = 2
         /\ Cardinality(RevokedFor(sc, dev[d].lockId)) = 1
         /\ RevokedFor(sc, dev[d].lockId) \subseteq dev[d].revokedSignatures

VerifyReadOnly ==
  [][\A d \in Devices, vc \in VcInputs :
       VerifyVc(d, vc) =>
         UNCHANGED << sc, myDevices, listOfIssuedVcs, vcs >>]_vars

\* C19 happens: a credential was accepted while the registry holds a revoked
\* signature, the authority an issued list and the holder a credential.
AcceptedWithoutTrace ==
  /\ last.op = "verifyVc"
  /\ last.ok
  /\ vcs # <<>>
  /\ listOfIssuedVcs["addr_1"] # <<>>
  /\ \E l \in DOMAIN sc.revoked : sc.revoked[l] # {}

\* C20 A registry lock record, once created by registerLock, changes in two
\* ways only: a successful revokeSignature on it adds one signature to its
\* revoked set, and a successful transferOwnership on it replaces its owner;
\* its public key never changes, its revoked set never loses a signature,
\* and the record is never deleted.
RecordFrame ==
  [][\A l \in DOMAIN sc.lockOwners :
       /\ l \in DOMAIN sc'.lockOwners
       /\ l \in DOMAIN sc'.lockPublicKeys
       /\ sc'.lockPublicKeys[l] = sc.lockPublicKeys[l]
       /\ RevokedFor(sc, l) \subseteq RevokedFor(sc', l)
       /\ RevokedFor(sc', l) # RevokedFor(sc, l) =>
            /\ last'.op = "revokeSignature"
            /\ last'.ok
            /\ last'.args[1] = l
            /\ Cardinality(RevokedFor(sc', l) \ RevokedFor(sc, l)) = 1
            /\ sc'.lockOwners[l] = sc.lockOwners[l]
       /\ sc'.lockOwners[l] # sc.lockOwners[l] =>
            /\ last'.op = "transferOwnership"
            /\ last'.ok
            /\ last'.args[1] = l]_vars

\* C20 happens: the first lock, registered by one authority, now has the
\* other address as owner and two revoked signatures, beside a second lock,
\* and still carries the public key it was registered with.
RecordOutlivesChanges ==
  /\ SmartContract_getTotalLocks(sc) = 2
  /\ Len(myDevices["addr_1"]) > 0
  /\ myDevices["addr_1"][1].lockId = 1
  /\ sc.lockOwners[1] = "addr_2"
  /\ RevokedFor(sc, 1) = RegistrySigs
  /\ sc.lockPublicKeys[1] = myDevices["addr_1"][1].pubK

\* The public key generated together with a private key.
PartnerOf(privateKey) ==
  (CHOOSE kp \in SignKeyPairs : kp.privateKey = privateKey).publicKey

\* C21 Sign/verify round trip: for every message, key pair and salt, the
\* signature and the digest returned by CryptoUtils.sign are canonical
\* base64 texts, and CryptoUtils.verify of that digest and signature under
\* the public key of the pair returns true.
SignVerifyRoundTrip ==
  /\ signOut.done =>
       /\ CanonicalForm(signOut.signature)
       /\ CanonicalForm(signOut.userMetaDataHash)
       /\ CryptoUtils_verify(signOut.userMetaDataHash, signOut.signature,
                             PartnerOf(signIn.privateKey)).ret
  /\ (/\ codecOut.done
      /\ codecIn.dataHash = signOut.userMetaDataHash
      /\ codecIn.publicKey = PartnerOf(signIn.privateKey))
       => (codecOut.ret /\ ~codecOut.threw /\ codecOut.cryptoCalled)

\* C21 happens: a message signed with the private key of a later key pair
\* and a later salt has been verified under the pair's public key.
RoundTripVerified ==
  /\ signOut.done
  /\ codecOut.done
  /\ codecOut.ret
  /\ codecIn.dataHash = signOut.userMetaDataHash
  /\ codecIn.signature = signOut.signature
  /\ codecIn.publicKey = PartnerOf(signIn.privateKey)
  /\ codecIn.publicKey > 1
  /\ signIn.salt > 1
  /\ signIn.data > 0

\* C22 Wrong-key and wrong-digest rejection: for a digest and signature
\* made by CryptoUtils.sign with private key k, CryptoUtils.verify returns
\* false under every generated public key that is not the partner of k, and
\* returns false under the partner of k for every other canonical digest
\* text.
WrongKeyOrDigestRejected ==
  codecOut.done =>
    /\ (/\ codecIn.dataHash = signOut.userMetaDataHash
        /\ codecIn.publicKey # PartnerOf(signIn.privateKey))
         => (~codecOut.ret /\ ~codecOut.threw)
    /\ (/\ codecIn.dataHash # signOut.userMetaDataHash
        /\ CanonicalForm(codecIn.dataHash)
        /\ codecIn.publicKey = PartnerOf(signIn.privateKey))
         => (~codecOut.ret /\ ~codecOut.threw)

\* C22 happens: the cryptographic verification was reached and refused the
\* signer's own digest and signature under the public key of another pair.
WrongKeyRefused ==
  /\ codecOut.done
  /\ ~codecOut.ret
  /\ codecOut.cryptoCalled
  /\ codecIn.dataHash = signOut.userMetaDataHash
  /\ codecIn.signature = signOut.signature
  /\ codecIn.publicKey # PartnerOf(signIn.privateKey)
  /\ codecIn.publicKey \in {kp.publicKey : kp \in SignKeyPairs}

\* The digest text of another message was refused under the signer's own
\* public key.
WrongDigestRefused ==
  /\ codecOut.done
  /\ ~codecOut.ret
  /\ codecOut.cryptoCalled
  /\ codecIn.dataHash # signOut.userMetaDataHash
  /\ codecIn.dataHash \in {toBase64(sha256(m)) : m \in SignDatas}
  /\ codecIn.publicKey = PartnerOf(signIn.privateKey)

\* A text that decodes to the raw holder metadata.
EncodesMetaData(text) == \E m \in UserMetaDatas : fromBase64(text) = << m >>

\* A credential with the four fields of VerifiableCredential, whose texts
\* are the digest of some metadata and a signature, neither of them the
\* metadata.
CredentialConfined(vc) ==
  /\ DOMAIN vc = {"lockId", "lockNickname", "signature", "userMetaDataHash"}
  /\ vc.lockId \in LockIds
  /\ vc.lockNickname \in Nicknames
  /\ \E m \in UserMetaDatas : vc.userMetaDataHash = toBase64(sha256(m))
  /\ ~EncodesMetaData(vc.userMetaDataHash)
  /\ ~EncodesMetaData(vc.signature)

\* C23 Holder-data confinement: after any sequence of calls the metadata
\* passed to issueVc is in no component's state: the credentials returned,
\* those in the authorities' issued lists and in the holder's store carry
\* the digest and the signature only, and the registry, the authorities'
\* lock lists and the verifiers hold ids, keys, owners and signatures only.
HolderDataConfined ==
  /\ \A vc \in handedOut : CredentialConfined(vc)
  /\ \A o \in Owners :
       /\ \A j \in 1..Len(listOfIssuedVcs[o]) :
            CredentialConfined(listOfIssuedVcs[o][j])
       /\ \A i \in 1..Len(myDevices[o]) :
            DOMAIN myDevices[o][i] = {"lockId", "pubK", "privateKey", "nickname"}
  /\ \A j \in 1..Len(vcs) : CredentialConfined(vcs[j])
  /\ last.op = "issueVc" /\ last.ok => CredentialConfined(last.args[3][1])
  /\ DOMAIN sc = {"lockPublicKeys", "lockOwners", "revoked", "lockCounter"}
  /\ \A l \in DOMAIN sc.lockOwners :
       /\ sc.lockOwners[l] \in Addresses
       /\ sc.lockPublicKeys[l] \in 1..keyPairs
       /\ \A s \in RevokedFor(sc, l) : ~EncodesMetaData(s)
  /\ \A d \in Devices :
       /\ DOMAIN dev[d] = {"made", "lockId", "pubK", "revokedSignatures"}
       /\ \A s \in dev[d].revokedSignatures : ~EncodesMetaData(s)

\* C23 happens: a credential issued for some metadata is in the holder's
\* store and has just been accepted by a verifier, and another one has been
\* revoked in the registry.
MetaDataStayedBehind ==
  /\ last.op = "verifyVc"
  /\ last.ok
  /\ last.args[2][1] \in handedOut
  /\ \E j \in 1..Len(vcs) : vcs[j] = last.args[2][1]
  /\ \E m \in UserMetaDatas : last.args[2][1].userMetaDataHash = toBase64(sha256(m))
  /\ \E l \in DOMAIN sc.revoked : sc.revoked[l] # {}

\* The private keys generated so far.
PrivateKeys == {CryptoUtils_generateKeyPair(k).privateKey : k \in 1..keyPairs}

\* C24 Private-key confinement: the private key of a registered lock is
\* held by the authority's own lock list only: the registry holds no
\* private key, no credential and no verifier object carries one, and the
\* value registerNewDevice returns to its caller carries none.
PrivateKeyConfined ==
  /\ \A o \in Owners : \A i \in 1..Len(myDevices[o]) :
       myDevices[o][i].privateKey \in PrivateKeys
  /\ \A l \in DOMAIN sc.lockPublicKeys : sc.lockPublicKeys[l] \notin PrivateKeys
  /\ \A vc \in handedOut : "privateKey" \notin DOMAIN vc
  /\ \A j \in 1..Len(vcs) : "privateKey" \notin DOMAIN vcs[j]
  /\ \A d \in Devices :
       /\ "privateKey" \notin DOMAIN dev[d]
       /\ dev[d].pubK \notin PrivateKeys
  /\ last.op = "registerNewDevice" =>
       "privateKey" \notin DOMAIN last.args[2]

\* C25 After an authority's registerNewDevice(label) returns a lock with id
\* n, the registry has a record n whose owner is that authority's address
\* and whose public key is the returned lock's public key, n was never
\* returned before, and the returned lock has been appended to the
\* authority's own lock list, which did not contain it before.
RegisterNewLockContract ==
  [][\A o \in Owners, n \in Nicknames :
       RegisterNewDevice(o, n) =>
         LET lock == last'.args[2]
         IN  /\ lock.lockId = last'.id
             /\ lock.nickname = n
             /\ lock.lockId \in DOMAIN sc'.lockOwners
             /\ sc'.lockOwners[lock.lockId] = o
             /\ lock.lockId \in DOMAIN sc'.lockPublicKeys
             /\ sc'.lockPublicKeys[lock.lockId] = lock.pubK
             /\ lock.lockId \notin DOMAIN sc.lockOwners
             /\ \A k \in 1..Len(returnedIds) : returnedIds[k] # lock.lockId
             /\ \A p \in AllMyDevices :
                  myDevices[p[1]][p[2]].lockId # lock.lockId
             /\ myDevices'[o] = Append(myDevices[o], lock)
             /\ \A q \in Owners \ {o} : myDevices'[q] = myDevices[q]]_vars

\* C25 happens: an authority that had given its first lock away registered
\* a second one, which is now the last entry of its lock list and its own
\* in the registry.
SecondLockRegistered ==
  /\ last.op = "registerNewDevice"
  /\ last.id = 2
  /\ LET o == last.args[1]
     IN  /\ Len(myDevices[o]) = 2
         /\ myDevices[o][2] = last.args[2]
         /\ sc.lockOwners[2] = o
         /\ sc.lockOwners[1] # o
         /\ sc.lockPublicKeys[2] = last.args[2].pubK
         /\ sc.lockPublicKeys[1] # sc.lockPublicKeys[2]

\* A verifier configured with the lockId of a credential and the public key
\* registered for that lock, holding the given revoked cache.
VerifierFor(vc, cache) ==
  [Device_new(vc.lockId, sc.lockPublicKeys[vc.lockId])
     EXCEPT !.revokedSignatures = cache]

\* C26 Every credential returned by a successful issueVc(L, metadata, label)
\* has lockId L and the given label and is appended to the authority's
\* issued list; and a credential so returned is accepted by every verifier
\* that has lockId L, the public key registered for L and a revoked cache
\* without the credential's signature.
IssuedIsAccepted ==
  /\ [][\A o \in Owners, l \in LockIds, m \in UserMetaDatas, n \in Nicknames :
          (IssueVc(o, l, m, n) /\ last'.ok) =>
            LET vc == last'.args[3][1]
            IN  /\ vc.lockId = l
                /\ vc.lockNickname = n
                /\ listOfIssuedVcs'[o] = Append(listOfIssuedVcs[o], vc)
                /\ handedOut' = handedOut \cup {vc}]_vars
  /\ [](\A vc \in handedOut :
          /\ vc.lockId \in DOMAIN sc.lockPublicKeys
          /\ \A cache \in SUBSET (SigInputs \ {vc.signature}) :
               Device_verifyVc(VerifierFor(vc, cache), << vc >>))
  /\ [](\A d \in Devices :
          (/\ last.op = "verifyVc"
           /\ last.args[1] = d
           /\ last.args[2] # <<>>
           /\ last.args[2][1] \in handedOut
           /\ dev[d].lockId = last.args[2][1].lockId
           /\ dev[d].pubK = sc.lockPublicKeys[last.args[2][1].lockId]
           /\ last.args[2][1].signature \notin dev[d].revokedSignatures)
            => last.ok)

\* C26 happens: a credential issued for the second lock has been accepted by
\* a verifier set to that lock and its registered key, whose revoked cache
\* holds another signature.
IssuedAcceptedBesideRevoked ==
  /\ last.op = "verifyVc"
  /\ last.ok
  /\ last.args[2][1] \in handedOut
  /\ last.args[2][1].lockId = 2
  /\ LET d == dev[last.args[1]]
     IN  /\ d.lockId = 2
         /\ d.pubK = sc.lockPublicKeys[2]
         /\ d.revokedSignatures # {}
         /\ last.args[2][1].signature \notin d.revokedSignatures
  /\ \E j \in 1..Len(listOfIssuedVcs["addr_1"]) :
       listOfIssuedVcs["addr_1"][j] = last.args[2][1]

\* C27 A successful revokeAccessWithVc(L, s) by an authority, which is then
\* the registered owner of L, removes exactly the credential with signature
\* s from that authority's issued list, all other issued credentials
\* staying in their order, and adds s to the registry's revoked set for L;
\* nothing else changes in the registry or in the other authority's list.
RevokeAccessContract ==
  [][(last'.op = "revokeAccessWithVc" /\ last'.ok) =>
         LET o      == last'.args[1]
             l      == last'.args[2]
             s      == last'.args[3]
             issued == listOfIssuedVcs[o]
             hits   == {j \in 1..Len(issued) : issued[j].signature = s}
         IN  /\ SmartContract_isOwner(sc, o, l)
             /\ Cardinality(hits) = 1
             /\ \A j \in hits : listOfIssuedVcs'[o] = RemoveAt(issued, j)
             /\ listOfIssuedVcs'[o] =
                  SelectSeq(issued, LAMBDA v : v.signature # s)
             /\ \A q \in Owners \ {o} : listOfIssuedVcs'[q] = listOfIssuedVcs[q]
             /\ RevokedFor(sc', l) = RevokedFor(sc, l) \cup {s}
             /\ \A k \in LockIds \ {l} : RevokedFor(sc', k) = RevokedFor(sc, k)
             /\ sc'.lockOwners = sc.lockOwners
             /\ sc'.lockPublicKeys = sc.lockPublicKeys
             /\ sc'.lockCounter = sc.lockCounter]_vars

\* C27 happens: an authority with two issued credentials revoked one of
\* them; the other is still in its issued list and the revoked signature is
\* in the registry's set for the lock.
OneRevokedOneKept ==
  /\ last.op = "revokeAccessWithVc"
  /\ last.ok
  /\ LET o == last.args[1]
         l == last.args[2]
         s == last.args[3]
     IN  /\ Len(listOfIssuedVcs[o]) = 1
         /\ listOfIssuedVcs[o][1].signature # s
         /\ listOfIssuedVcs[o][1].lockId = l
         /\ listOfIssuedVcs[o][1] \in handedOut
         /\ s \in RevokedFor(sc, l)
         /\ s \in IssuedSigs
         /\ sc.lockOwners[l] = o

\* C28 User.removeVcForLock(lockId) returns true exactly when the store
\* held a credential for lockId before the call; afterwards
\* getCredentialForLock(lockId) returns none and the credentials for every
\* other lockId are as before; when it returns false the store is unchanged.
RemoveForLockContract ==
  [][\A l \in LockIds :
       RemoveVcForLock(l) =>
         /\ last'.ok <=> (\E i \in 1..Len(vcs) : vcs[i].lockId = l)
         /\ User_getCredentialForLock(vcs', l) = <<>>
         /\ \A i \in 1..Len(vcs') : vcs'[i].lockId # l
         /\ \A k \in LockIds \ {l} :
              User_getCredentialForLock(vcs', k) = User_getCredentialForLock(vcs, k)
         /\ vcs' = SelectSeq(vcs, LAMBDA v : v.lockId # l)
         /\ ~last'.ok => vcs' = vcs]_vars

\* C28 happens: the holder's credential for one lock was removed and
\* reported, and its credential for the other lock is still in the store.
RemovedOneKeptOther ==
  /\ last.op = "removeVcForLock"
  /\ last.ok
  /\ \E v \in stored : v.lockId = last.args[1]
  /\ User_getCredentialForLock(vcs, last.args[1]) = <<>>
  /\ Len(vcs) = 1
  /\ vcs[1].lockId # last.args[1]
  /\ vcs[1] \in stored

\* C29 In the lock-activation variant, SmartContract.revokeLock(L, caller)
\* and activateLock(L, caller) on a registered lock L fail with Unauthorized
\* and change nothing when the caller is not the owner of L; called by the
\* owner they succeed, set isLockActive(L) to false and to true
\* respectively, and change nothing else.
LockActivationGating ==
  [][\A l \in DOMAIN lockSc.locks, a \in Addresses :
       /\ LockRevokeLock(l, a) =>
            IF LockContract_isOwner(lockSc, a, l)
              THEN /\ last'.err = "none"
                   /\ ~LockContract_isLockActive(lockSc', l)
                   /\ lockSc' = [lockSc EXCEPT !.locks[l].isActive = FALSE]
              ELSE /\ last'.err = "Unauthorized"
                   /\ lockSc' = lockSc
       /\ LockActivateLock(l, a) =>
            IF LockContract_isOwner(lockSc, a, l)
              THEN /\ last'.err = "none"
                   /\ LockContract_isLockActive(lockSc', l)
                   /\ lockSc' = [lockSc EXCEPT !.locks[l].isActive = TRUE]
              ELSE /\ last'.err = "Unauthorized"
                   /\ lockSc' = lockSc]_vars

\* C29 happens: the authority that registered a lock, revoked it and gave
\* it away was refused when it called activateLock, and the lock is still
\* inactive beside an active one.
FormerOwnerCannotActivate ==
  /\ last.op = "sc.activateLock"
  /\ last.err = "Unauthorized"
  /\ LET l == last.args[1]
         a == last.args[2]
     IN  /\ l \in DOMAIN lockSc.locks
         /\ ~LockContract_isLockActive(lockSc, l)
         /\ ~LockContract_isOwner(lockSc, a, l)
         /\ \E i \in 1..Len(myLocks[a]) : myLocks[a][i].lockId = l
         /\ \E k \in DOMAIN lockSc.locks : LockContract_isLockActive(lockSc, k)

\* C30 In the lock-activation variant verification follows the
\* SmartContract's active flag with no refresh step: while isLockActive(L)
\* is false, the Device with lockId L returns false from verifyVc for every
\* credential and from fetchPubK, and fetchPublicKey(L) returns null; and
\* whenever L is active, also after having been inactive, a credential that
\* a Device has accepted before is accepted again by the Device with lockId
\* L.
VerificationTracksActiveFlag ==
  /\ [](\A l \in LockIds :
          ~LockContract_isLockActive(lockSc, l)
            => LockContract_fetchPublicKey(lockSc, l) = <<>>)
  /\ [](\A d \in Devices :
          (/\ last.op \in {"verifyVc", "fetchPubK"}
           /\ last.args[1] = d
           /\ ~LockContract_isLockActive(lockSc, lockDev[d].lockId))
            => ~last.ok)
  /\ [][(/\ last'.op = "verifyVc"
         /\ last'.args[2] # <<>>
         /\ last'.args[2][1] \in acceptedVcs
         /\ lockDev[last'.args[1]].lockId = last'.args[2][1].lockId
         /\ LockContract_isLockActive(lockSc, last'.args[2][1].lockId))
          => last'.ok]_vars

\* C30 happens: a credential that was accepted, and then refused while its
\* lock was inactive, has been accepted again on the reactivated lock.
AcceptedAgainAfterActivation ==
  /\ last.op = "verifyVc"
  /\ last.ok
  /\ last.args[2][1] \in refusedVcs
  /\ last.args[2][1] \in handedOut
  /\ LockContract_isLockActive(lockSc, last.args[2][1].lockId)

HasOwnLock(o, l) == \E i \in 1..Len(myDevices[o]) : myDevices[o][i].lockId = l

\* C32 Issuance ignores registry ownership: an issueVc(L, ...) call by an
\* authority that has L in its own lock list succeeds also when the registry
\* names another address as the owner of L, and the credential it returns
\* is accepted by a verifier for L with the registered public key: by the
\* Device at hand when it is one, and whenever such a Device, not having the
\* signature in its revoked cache, verifies a credential of a lock that the
\* registry no longer gives to the issuing authority.
IssuanceIgnoresRegistryOwner ==
  /\ [][(/\ last'.op = "issueVc"
          /\ HasOwnLock(last'.args[1], last'.args[2])
          /\ salts < MaxIssued)
         => /\ last'.ok
            /\ last'.args[3] # <<>>
            /\ last'.args[3][1].lockId = last'.args[2]
            /\ Device_verifyVc(VerifierFor(last'.args[3][1], {}), last'.args[3])
            /\ \A d \in Devices :
                 (/\ dev[d].made
                  /\ dev[d].lockId = last'.args[2]
                  /\ dev[d].pubK = sc.lockPublicKeys[last'.args[2]])
                 => Device_verifyVc(dev'[d], last'.args[3])]_vars
  /\ [](\A d \in Devices :
          (/\ last.op = "verifyVc"
           /\ last.args[1] = d
           /\ last.args[2] # <<>>
           /\ last.args[2][1] \in handedOut
           /\ ~SmartContract_isOwner(sc, "addr_1", last.args[2][1].lockId)
           /\ dev[d].lockId = last.args[2][1].lockId
           /\ dev[d].pubK = sc.lockPublicKeys[dev[d].lockId]
           /\ last.args[2][1].signature \notin dev[d].revokedSignatures)
            => last.ok)

\* C32 happens: the registry names addr_2 as the owner of a lock that addr_1
\* registered, addr_1 has just issued a credential for it, and the Device
\* for that lock, holding the registered key, accepts the credential.
IssuedAfterTransfer ==
  /\ last.op = "issueVc" /\ last.ok
  /\ last.args[1] = "addr_1"
  /\ HasOwnLock("addr_1", last.args[2])
  /\ sc.lockOwners[last.args[2]] = "addr_2"
  /\ \E d \in Devices :
       /\ dev[d].made
       /\ dev[d].lockId = last.args[2]
       /\ dev[d].pubK = sc.lockPublicKeys[last.args[2]]
       /\ Device_verifyVc(dev[d], last.args[3])

\* The signatures of the credentials in an issued list.
SigsOf(issued) == {issued[j].signature : j \in 1..Len(issued)}

\* C33 as stated: after a revokeAccessWithVc(L, s) that the registry refused
\* as Unauthorized, s is neither in the authority's issued list nor in the
\* registry's revoked set for L.
DivergedNeverRevoked ==
  (last.op = "revokeAccessWithVc" /\ last.err = "Unauthorized")
    => /\ last.args[3] \notin SigsOf(listOfIssuedVcs[last.args[1]])
       /\ last.args[3] \notin RevokedFor(sc, last.args[2])

\* C33 Diverged bookkeeping: a revokeAccessWithVc(L, s) that the registry
\* refuses as Unauthorized removes the credential with signature s from the
\* authority's issued list and leaves the registry as it was; a signature
\* gone from the issued list never returns to it, and every
\* revokeAccessWithVc(L, s) for it fails with NotFound without changing the
\* registry; s enters the registry's revoked set for L only by a successful
\* revokeSignature of the registry's owner of L, called directly or for a
\* credential still in the caller's issued list; and a verifier for L that
\* accepts the credential still accepts it after refreshing as long as s is
\* not in the registry's revoked set for L.
DivergedBookkeeping ==
  /\ [][(last'.op = "revokeAccessWithVc" /\ last'.err = "Unauthorized")
         => LET o == last'.args[1]
                s == last'.args[3]
            IN  /\ s \in SigsOf(listOfIssuedVcs[o])
                /\ s \notin SigsOf(listOfIssuedVcs'[o])
                /\ sc' = sc]_vars
  /\ [][\A o \in Owners, s \in IssuedSigs :
          s \notin SigsOf(listOfIssuedVcs[o])
          => /\ s \notin SigsOf(listOfIssuedVcs'[o])
             /\ (last'.op = "revokeAccessWithVc" /\ last'.args[1] = o
                   /\ last'.args[3] = s)
                => (last'.err = "NotFound" /\ sc' = sc)]_vars
  /\ [][\A l \in LockIds, s \in IssuedSigs :
          (s \notin RevokedFor(sc, l) /\ s \in RevokedFor(sc', l))
          => /\ last'.ok
             /\ l \in DOMAIN sc.lockOwners
             /\ \/ last'.op = "revokeSignature" /\ last'.args[1] = l
                \/ /\ last'.op = "revokeAccessWithVc"
                   /\ last'.args = << sc.lockOwners[l], l, s >>
                   /\ s \in SigsOf(listOfIssuedVcs[sc.lockOwners[l]])]_vars
  /\ [][\A d \in Devices :
          IF last'.op = "fetchRevokedSignatures" /\ last'.args = << d >>
            THEN \A v \in handedOut :
                   (/\ Device_verifyVc(dev[d], << v >>)
                    /\ v.signature \notin RevokedFor(sc, dev[d].lockId))
                   => Device_verifyVc(dev'[d], << v >>)
            ELSE dev[d].made => dev'[d] = dev[d]]_vars

\* C33 happens: the authority is told NotFound for the signature of a
\* credential it handed out for its own lock, a signature that no
\* revokeSignature call ever accepted (so the call that took it off the
\* issued list was refused by the registry, which names the other address as
\* the owner of the lock); the verifier for that lock has refreshed and
\* accepts the credential.
RefusedThenNotFound ==
  /\ last.op = "revokeAccessWithVc" /\ last.err = "NotFound"
  /\ LET o == last.args[1]
         l == last.args[2]
         s == last.args[3]
     IN  /\ HasOwnLock(o, l)
         /\ sc.lockOwners[l] # o
         /\ s \notin SigsOf(listOfIssuedVcs[o])
         /\ \A k \in LockIds : << k, s >> \notin revokeLog /\ s \notin RevokedFor(sc, k)
         /\ \E v \in handedOut, d \in Devices :
              /\ v.signature = s /\ v.lockId = l
              /\ dev[d].made /\ dev[d].lockId = l
              /\ dev[d].revokedSignatures # {}
              /\ Device_verifyVc(dev[d], << v >>)

\* C34 Revocation rights follow the owner: every registered lock has one
\* owner, an address; a revokeSignature(L, s, a) call on a registered lock
\* succeeds and puts s into L's revoked set when a is that owner, and fails
\* with Unauthorized otherwise; in the state a successful
\* transferOwnership(L, A, B) with A # B leaves, revokeSignature(L, s, A)
\* fails with Unauthorized and revokeSignature(L, s, B) succeeds, and the
\* revoked set of L is what it was before the transfer.
RevocationFollowsOwner ==
  /\ [](\A l \in 1..(sc.lockCounter - 1) :
          /\ l \in DOMAIN sc.lockOwners
          /\ sc.lockOwners[l] \in Addresses
          /\ Cardinality({a \in Addresses : SmartContract_isOwner(sc, a, l)}) = 1)
  /\ [][\A l \in LockIds, s \in RegistrySigs, a \in Addresses :
          (l \in DOMAIN sc.lockOwners /\ RevokeSignature(l, s, a))
          => IF a = sc.lockOwners[l]
               THEN /\ last'.ok
                    /\ RevokedFor(sc', l) = RevokedFor(sc, l) \cup {s}
                    /\ sc'.lockOwners = sc.lockOwners
               ELSE last'.err = "Unauthorized" /\ sc' = sc]_vars
  /\ [][\A l \in LockIds, A \in Addresses, B \in Addresses :
          (A # B /\ TransferOwnership(l, A, B) /\ last'.ok)
          => /\ RevokedFor(sc', l) = RevokedFor(sc, l)
             /\ \A s \in RegistrySigs :
                  /\ SmartContract_revokeSignature(sc', l, s, A).err = "Unauthorized"
                  /\ SmartContract_revokeSignature(sc', l, s, B).err = "none"
                  /\ s \in RevokedFor(SmartContract_revokeSignature(sc', l, s, B).sc, l)]_vars

\* C34 happens: a lock that addr_1 registered belongs to addr_2, a
\* revokeSignature call on it has just succeeded for a signature that was not
\* revoked yet, a signature revoked earlier is still in the set, and the
\* registry would refuse addr_1.
NewOwnerRevoked ==
  /\ last.op = "revokeSignature" /\ last.ok /\ ~revokedBefore
  /\ HasOwnLock("addr_1", last.args[1])
  /\ SmartContract_isOwner(sc, "addr_2", last.args[1])
  /\ Cardinality(RevokedFor(sc, last.args[1])) = 2
  /\ \A s \in RegistrySigs :
       SmartContract_revokeSignature(sc, last.args[1], s, "addr_1").err = "Unauthorized"

\* C35 Revocation is isolated per lock: a successful revocation of s for
\* lock L1, called directly or through the authority, leaves the revoked
\* set, the owner and the public key of every other lock as they were; a
\* Device (which keeps its lockId L2) has in its cache only signatures of
\* the registry's revoked set for L2, so a refresh gives it no signature
\* that is revoked for other locks only, and a credential it accepted whose
\* signature is not revoked for L2 is still accepted after the refresh.
RevocationPerLock ==
  /\ [][(last'.op \in {"revokeSignature", "revokeAccessWithVc"} /\ last'.ok)
         => LET l1 == IF last'.op = "revokeSignature" THEN last'.args[1]
                      ELSE last'.args[2]
            IN  /\ sc'.lockOwners = sc.lockOwners
                /\ sc'.lockPublicKeys = sc.lockPublicKeys
                /\ RevokedFor(sc', l1) # {}
                /\ \A l2 \in LockIds \ {l1} :
                     /\ RevokedFor(sc', l2) = RevokedFor(sc, l2)
                     /\ (l2 \in DOMAIN sc'.revoked) = (l2 \in DOMAIN sc.revoked)]_vars
  /\ [](\A d \in Devices :
          dev[d].made => dev[d].revokedSignatures \subseteq RevokedFor(sc, dev[d].lockId))
  /\ [][\A d \in Devices :
          (last'.op = "fetchRevokedSignatures" /\ last'.args = << d >>)
          => /\ \A s \in IssuedSigs :
                  (s \notin RevokedFor(sc, dev[d].lockId)
                     /\ s \notin dev[d].revokedSignatures)
                  => s \notin dev'[d].revokedSignatures
             /\ \A v \in handedOut :
                  (/\ v.lockId = dev[d].lockId
                   /\ v.signature \notin RevokedFor(sc, dev[d].lockId)
                   /\ Device_verifyVc(dev[d], << v >>))
                  => Device_verifyVc(dev'[d], << v >>)]_vars

\* C35 happens: the Device for lock 2 has just refreshed while a signature
\* is revoked for lock 1 and not for lock 2; the signature is not in its
\* cache, which holds another one, and it accepts a credential issued for
\* lock 2.
OtherLockUntouched ==
  /\ last.op = "fetchRevokedSignatures"
  /\ LET d == dev[last.args[1]]
     IN  /\ d.lockId = 2
         /\ d.revokedSignatures # {}
         /\ \E s \in RevokedFor(sc, 1) :
              s \notin RevokedFor(sc, 2) /\ s \notin d.revokedSignatures
         /\ \E v \in handedOut :
              v.lockId = 2 /\ Device_verifyVc(d, << v >>)

RegistryStructure ==
  /\ sc.lockCounter \in Nat \ {0}
  /\ DOMAIN sc.lockOwners = DOMAIN sc.lockPublicKeys
  /\ DOMAIN sc.lockOwners = 1..(sc.lockCounter - 1)
  /\ DOMAIN sc.revoked \subseteq DOMAIN sc.lockOwners
  /\ SmartContract_getTotalLocks(sc) = sc.lockCounter - 1

\* C37 happens: two locks are registered, one of them transferred to the
\* other address, the counter stands at 3, only lock 2 has a revoked set,
\* and a call naming a lockId has just been refused.
TwoLocksOneRevokedSet ==
  /\ sc.lockCounter = 3
  /\ SmartContract_getTotalLocks(sc) = 2
  /\ DOMAIN sc.revoked = {2}
  /\ sc.revoked[2] # {}
  /\ sc.lockOwners[1] # sc.lockOwners[2]
  /\ last.op \in {"revokeSignature", "transferOwnership"}
  /\ ~last.ok

\* C38 No false revocation at the verifier: for a Device that keeps its
\* lockId L, every signature in its revoked cache is in the registry's
\* revoked set for L, and every signature in that set was put there by a
\* successful revokeSignature call made for L by the address that owned L at
\* the time of the call; so a verifyVc call refuses a credential as revoked,
\* and refuses a credential issued for L at all, only if its signature was
\* revoked in the registry for L.
NoFalseRevocation ==
  /\ [](\A d \in Devices :
          dev[d].made =>
            /\ dev[d].revokedSignatures \subseteq RevokedFor(sc, dev[d].lockId)
            /\ \A s \in dev[d].revokedSignatures : << dev[d].lockId, s >> \in revokeLog)
  /\ [](\A l \in LockIds : \A s \in RevokedFor(sc, l) : << l, s >> \in revokeLog)
  /\ [][revokeLog' # revokeLog
         => /\ last'.ok
            /\ last'.op \in {"revokeSignature", "revokeAccessWithVc"}
            /\ LET l == IF last'.op = "revokeSignature" THEN last'.args[1]
                         ELSE last'.args[2]
               IN  /\ l \in DOMAIN sc.lockOwners
                   /\ \E s \in IssuedSigs :
                        /\ revokeLog' = revokeLog \cup {<< l, s >>}
                        /\ RevokedFor(sc', l) = RevokedFor(sc, l) \cup {s}
                        /\ IF last'.op = "revokeSignature"
                             THEN /\ RevokeSignature(l, s, sc.lockOwners[l])
                                  /\ \A a \in Addresses \ {sc.lockOwners[l]} :
                                       ~RevokeSignature(l, s, a)
                             ELSE last'.args = << sc.lockOwners[l], l, s >>]_vars
  /\ [](\A d \in Devices :
          (last.op = "verifyVc" /\ last.args[1] = d /\ last.args[2] # <<>>
             /\ ~last.ok)
          => LET v == last.args[2][1]
             IN  /\ v.signature \in dev[d].revokedSignatures
                    => v.signature \in RevokedFor(sc, dev[d].lockId)
                 /\ (v \in handedOut /\ v.lockId = dev[d].lockId)
                    => /\ v.signature \in RevokedFor(sc, dev[d].lockId)
                       /\ << dev[d].lockId, v.signature >> \in revokeLog)

\* C38 happens: the Device has just refused, as revoked, a credential issued
\* for its lock; the signature is in the registry's revoked set for that
\* lock, and the lock has since passed to the other address.
RefusedBecauseRevoked ==
  /\ last.op = "verifyVc" /\ ~last.ok
  /\ LET d == dev[last.args[1]]
         v == last.args[2][1]
     IN  /\ v \in handedOut
         /\ v.lockId = d.lockId
         /\ v.signature \in d.revokedSignatures
         /\ << d.lockId, v.signature >> \in revokeLog
         /\ sc.lockOwners[d.lockId] = "addr_2"

\* C39 revokeAccessWithVc(lockId, signature) called with a lockId that is
\* not in the authority's own lock list fails with NotFound and changes
\* neither the issued lists nor the registry, whether or not the authority
\* holds an issued credential with that signature and whether or not the
\* lockId is registered to someone else.
ForeignLockRevokeRefused ==
  [][(last'.op = "revokeAccessWithVc"
        /\ ~HasOwnLock(last'.args[1], last'.args[2]))
     => /\ last'.err = "NotFound"
        /\ ~last'.ok
        /\ listOfIssuedVcs' = listOfIssuedVcs
        /\ sc' = sc
        /\ revokeLog' = revokeLog]_vars

\* C39 happens: an authority holding an issued credential with signature s
\* has just been told NotFound for revokeAccessWithVc(L, s), L being a lock
\* the other authority registered and owns; the credential is still in its
\* issued list and s is revoked nowhere.
ForeignLockKeptCredential ==
  /\ last.op = "revokeAccessWithVc" /\ last.err = "NotFound"
  /\ LET o == last.args[1]
         l == last.args[2]
         s == last.args[3]
     IN  /\ ~HasOwnLock(o, l)
         /\ l \in DOMAIN sc.lockOwners
         /\ sc.lockOwners[l] # o
         /\ s \in SigsOf(listOfIssuedVcs[o])
         /\ \A k \in LockIds : s \notin RevokedFor(sc, k)

====
